---- MODULE Spec2Model ----
(***************************************************************************)
(* Model of multiverse: the timeline model (src/timeline.rs), the chunk    *)
(* reconstruction for the linked-chunk debug view, and the main loop with  *)
(* its input queue, modes and background forwarders (src/app.rs,          *)
(* src/input.rs, src/room.rs, src/mode/*.rs).                              *)
(*                                                                         *)
(* The specifications share the variables:                                 *)
(*   SpecChunks    reload_linked_chunks applied to bounded chunk chains;   *)
(*   SpecTimeline  one timeline::Model receiving timeline::Message values; *)
(*   Spec          the application: main loop, queue, modes, forwarders;   *)
(*   SpecModes     the application with every mode and every producer;     *)
(*   SpecUpdate    Model::update and its chains from every mode;           *)
(*   SpecQueue     the forwarders filling the channel to its capacity;     *)
(*   SpecTerminal  the reader of the terminal events;                      *)
(*   SpecClosed    the main loop over a closed channel;                    *)
(*   SpecStore     reload_linked_chunks over a store that may fail;        *)
(*   SpecDiffs     batches of diffs applied to the items of a timeline;    *)
(*   SpecChunkView the main loop with the chunk view and its scrolling;    *)
(*   SpecQuitFair  the main loop, the keys that lead to Quit, and the stop *)
(*                 of the sync service, which runs when the loop ends;     *)
(*   SpecReopenFair the room list mode left and entered again, under a     *)
(*                 main loop that keeps running;                           *)
(*   SpecSend      composing and sending with the chunk view scrolled;     *)
(*   SpecRoomList  the room list mode under batches that move its rooms.   *)
(***************************************************************************)
EXTENDS Integers, Sequences, FiniteSets, TLC

VARIABLES
    items,            \* timeline::Model.items (of the open room in Spec)
    linked_chunks,    \* timeline::Model.linked_chunks
    scroll_position,  \* timeline::Model.scroll_position
    details,          \* timeline::Model.details
    store,            \* the event cache store's chunk chain of the room, head first
    last,             \* history: what the last handled message did
    panicked,         \* the process was aborted by a panic (a failed unwrap, an index out of range)
    exit,             \* app::Model.exit
    mode,             \* app::Model.mode, with the sub-model of the mode
    room,             \* app::Model.room (its timeline is the timeline variables above)
    queue,            \* the mpsc channel of Input values, oldest first
    pc,               \* where App::run is: "loop", "recv", "update", "done"
    next_message,     \* next_message of App::run
    tasks,            \* the spawned forwarders that are live, each with its position
    applied,          \* history: the last batch a model applied (its origin; in SpecDiffs the batch)
    iteration         \* history: update calls since the last render, renders since the last recv

tlVars == <<items, linked_chunks, scroll_position, details, store, last, panicked>>

appVars == <<exit, mode, room, queue, pc, next_message, tasks, applied, iteration>>

vars == <<tlVars, appVars>>

----------------------------------------------------------------------------
(* Bounds and constants *)

\* Longest item sequence the model explores.
MaxLen == 4

\* Largest provisional offset the model lets Up reach in the linked-chunk view.
MaxScroll == 3

\* Longest chunk chain of the store.
MaxChain == 3

\* timeline.rs: const MINIMUM_NUMBER_OF_VISIBLE_ITEMS: usize = 3;
MINIMUM_NUMBER_OF_VISIBLE_ITEMS == 3

\* usize::MAX, the "Start" sentinel of the linked-chunk view.  The model uses
\* the largest integer of the checker; the arithmetic below never adds to it.
USIZE_MAX == 2147483647

\* Option::None for an event id; event ids are positive.
None == 0

\* Timeline items: 0 is an item without event id (a virtual item such as a date
\* divider), n > 0 an event item (a message) whose event id is n.
ItemValues == {0, 1}

\* The event ids reload_linked_chunks is asked for; 3 is in no chunk.
EventIds == {1, 2, 3}

min(a, b) == IF a <= b THEN a ELSE b

saturating_sub(a, b) == IF a >= b THEN a - b ELSE 0

\* An addition that wraps around at usize::MAX + 1.
wrapping_add(a, b) == IF a > USIZE_MAX - b THEN a - (USIZE_MAX - b) - 1 ELSE a + b

saturating_add(a, b) == IF a >= USIZE_MAX - b THEN USIZE_MAX ELSE a + b

----------------------------------------------------------------------------
(* VectorDiff and its application (eyeball_im::VectorDiff::apply) *)

\* The values carried by Append and Reset.
ValueSeqs == {<<1>>, <<0, 1>>}

\* The indices and lengths the diffs carry: the front, the second place, and
\* MaxLen (the end of a full sequence, out of range for a shorter one).
Indices == {0, 1, MaxLen}

Diffs ==
    {[op |-> "Append", values |-> v] : v \in ValueSeqs}
    \cup {[op |-> "Clear"]}
    \cup {[op |-> "PushFront", value |-> v] : v \in ItemValues}
    \cup {[op |-> "PushBack", value |-> v] : v \in ItemValues}
    \cup {[op |-> "PopFront"], [op |-> "PopBack"]}
    \cup {[op |-> "Insert", index |-> i, value |-> v] : i \in Indices, v \in ItemValues}
    \cup {[op |-> "Set", index |-> i, value |-> v] : i \in Indices, v \in ItemValues}
    \cup {[op |-> "Remove", index |-> i] : i \in Indices}
    \cup {[op |-> "Truncate", length |-> i] : i \in Indices}
    \cup {[op |-> "Reset", values |-> v] : v \in ValueSeqs}

\* The diffs of the batches of two: in-place edits and structural ones.
PairDiffs ==
    {[op |-> "Set", index |-> 0, value |-> v] : v \in ItemValues}
    \cup {[op |-> "PushBack", value |-> 1], [op |-> "PopFront"]}

\* The batches fed to the timeline: the empty batch, every single diff, and
\* the pairs of PairDiffs.
Batches ==
    {<<>>} \cup {<<d>> : d \in Diffs} \cup {<<d, e>> : d \in PairDiffs, e \in PairDiffs}

\* Indices of the diffs are 0-based, the sequences of the model 1-based.
Ok(s) == [ok |-> TRUE, v |-> s]

Panic(s) == [ok |-> FALSE, v |-> s]

apply(s, diff) ==
    CASE diff.op = "Append" -> Ok(s \o diff.values)
      [] diff.op = "Clear" -> Ok(<<>>)
      [] diff.op = "PushFront" -> Ok(<<diff.value>> \o s)
      [] diff.op = "PushBack" -> Ok(Append(s, diff.value))
      [] diff.op = "PopFront" -> Ok(IF s = <<>> THEN s ELSE Tail(s))
      [] diff.op = "PopBack" -> Ok(IF s = <<>> THEN s ELSE SubSeq(s, 1, Len(s) - 1))
      [] diff.op = "Insert" ->
            IF diff.index > Len(s) THEN Panic(s)
            ELSE Ok(SubSeq(s, 1, diff.index) \o <<diff.value>>
                    \o SubSeq(s, diff.index + 1, Len(s)))
      [] diff.op = "Set" ->
            IF diff.index >= Len(s) THEN Panic(s)
            ELSE Ok([s EXCEPT ![diff.index + 1] = diff.value])
      [] diff.op = "Remove" ->
            IF diff.index >= Len(s) THEN Panic(s)
            ELSE Ok(SubSeq(s, 1, diff.index) \o SubSeq(s, diff.index + 2, Len(s)))
      [] diff.op = "Truncate" ->
            IF diff.length > Len(s) THEN Panic(s)
            ELSE Ok(SubSeq(s, 1, diff.length))
      [] diff.op = "Reset" -> Ok(diff.values)

\* A loop that skips a diff whose index is out of range and goes on.
RECURSIVE apply_all_skips_out_of_range(_, _)
apply_all_skips_out_of_range(s, diffs) ==
    IF diffs = <<>> THEN Ok(s)
    ELSE LET r == apply(s, Head(diffs))
         IN apply_all_skips_out_of_range(r.v, Tail(diffs))

\* A loop that applies a batch only while the timeline itself is shown.
RECURSIVE apply_all_in_timeline_view(_, _)
apply_all_in_timeline_view(s, diffs) ==
    IF diffs = <<>> \/ details = "LinkedChunk" THEN Ok(s)
    ELSE LET r == apply(s, Head(diffs))
         IN IF r.ok THEN apply_all_in_timeline_view(r.v, Tail(diffs)) ELSE r

\* A loop that walks the batch from its last diff to its first.
RECURSIVE apply_all_newest_first(_, _)
apply_all_newest_first(s, diffs) ==
    IF diffs = <<>> THEN Ok(s)
    ELSE LET r == apply(s, diffs[Len(diffs)])
         IN IF r.ok THEN apply_all_newest_first(r.v, SubSeq(diffs, 1, Len(diffs) - 1)) ELSE r

\* A loop where Reset and Clear keep what an earlier diff of the batch left.
RECURSIVE apply_all_merges_reset(_, _, _)
apply_all_merges_reset(s, diffs, first) ==
    IF diffs = <<>> THEN Ok(s)
    ELSE LET d == Head(diffs)
             r == IF first \/ d.op \notin {"Reset", "Clear"} THEN apply(s, d)
                  ELSE IF d.op = "Reset" THEN Ok(s \o d.values) ELSE Ok(s)
         IN IF r.ok THEN apply_all_merges_reset(r.v, Tail(diffs), FALSE) ELSE r

apply_all_keeps_earlier_diffs(s, diffs) ==
    apply_all_merges_reset(s, diffs, TRUE)

\* for diff in diffs { diff.apply(&mut self.items) }: in order, stopping at a panic.
RECURSIVE apply_all(_, _)
apply_all(s, diffs) ==
    IF diffs = <<>> THEN Ok(s)
    ELSE LET r == apply(s, Head(diffs))
         IN IF r.ok THEN apply_all(r.v, Tail(diffs)) ELSE r

----------------------------------------------------------------------------
(* The chunk store and reload_linked_chunks *)

\* ChunkContent of the store: Items(events) or Gap(gap); an event is its event
\* id, 0 for an event whose id cannot be read.
StoreContents ==
    {[kind |-> "Items", events |-> e] : e \in {<<>>, <<1>>, <<2>>, <<0>>, <<1, 2>>, <<0, 1>>}}
    \cup {[kind |-> "Gap", gap |-> [prev_token |-> t]] : t \in {"t1", "t2"}}

\* A chain, head first; the chunk at position i has identifier i.
Chains ==
    UNION {[1..n -> StoreContents] : n \in 0..MaxChain}

load_last_chunk(st) ==
    IF Len(st) = 0 THEN None ELSE Len(st)

\* Mutant: the walk gives up one chunk before the head of the chain.
load_previous_chunk_misses_head(st, identifier) ==
    IF identifier > 2 THEN identifier - 1 ELSE None

load_previous_chunk(st, identifier) ==
    IF identifier > 1 THEN identifier - 1 ELSE None

\* Mutant: the walk breaks before it pushes the chunk that holds the anchor.
RECURSIVE walk_breaks_before_push(_, _, _, _)
walk_breaks_before_push(st, next_chunk, first, acc) ==
    IF next_chunk = None THEN acc
    ELSE LET content == st[next_chunk]
             do_break == /\ content.kind = "Items"
                         /\ \E i \in 1..Len(content.events) :
                               /\ content.events[i] # None
                               /\ content.events[i] = first
             pushed == IF content.kind = "Items"
                       THEN <<next_chunk, [kind |-> "Items", events |-> content.events]>>
                       ELSE <<next_chunk, [kind |-> "Gap", prev_token |-> content.gap.prev_token]>>
             prev == load_previous_chunk(st, next_chunk)
         IN IF do_break
            THEN acc
            ELSE walk_breaks_before_push(st, prev, first,
                      [chunks |-> Append(acc.chunks, pushed),
                       loaded |-> IF prev = None THEN acc.loaded ELSE Append(acc.loaded, prev),
                       calls |-> acc.calls + 1])

\* The loop of reload_linked_chunks, from the chunk `next_chunk` on.  acc is
\* [chunks: the result so far, loaded: the identifiers the store returned,
\*  calls: the number of calls of the store].
RECURSIVE walk(_, _, _, _)
walk(st, next_chunk, first, acc) ==
    IF next_chunk = None THEN acc
    ELSE LET content == st[next_chunk]
             do_break == /\ content.kind = "Items"
                         /\ \E i \in 1..Len(content.events) :
                               /\ content.events[i] # None
                               /\ content.events[i] = first
             pushed == IF content.kind = "Items"
                       THEN <<next_chunk, [kind |-> "Items", events |-> content.events]>>
                       ELSE <<next_chunk, [kind |-> "Gap", prev_token |-> content.gap.prev_token]>>
             prev == load_previous_chunk(st, next_chunk)
         IN IF do_break
            THEN [acc EXCEPT !.chunks = Append(@, pushed)]
            ELSE walk(st, prev, first,
                      [chunks |-> Append(acc.chunks, pushed),
                       loaded |-> IF prev = None THEN acc.loaded ELSE Append(acc.loaded, prev),
                       calls |-> acc.calls + 1])

\* Mutant: the early return for an unknown anchor is missing.
reload_linked_chunks_without_anchor_check(st, first_event_id) ==
    LET next_chunk == load_last_chunk(st)
        start == [chunks |-> <<>>,
                  loaded |-> IF next_chunk = None THEN <<>> ELSE <<next_chunk>>,
                  calls |-> 1]
    IN walk(st, next_chunk, first_event_id, start) @@ [some |-> TRUE]

\* reload_linked_chunks: the new linked_chunks, the chunks the store returned,
\* the number of store calls and whether it returns Some(()).
reload_linked_chunks(st, first_event_id) ==
    LET next_chunk == load_last_chunk(st)
        start == [chunks |-> <<>>,
                  loaded |-> IF next_chunk = None THEN <<>> ELSE <<next_chunk>>,
                  calls |-> 1]
    IN IF first_event_id = None
       THEN start @@ [some |-> FALSE]
       ELSE walk(st, next_chunk, first_event_id, start) @@ [some |-> TRUE]

----------------------------------------------------------------------------
(* SpecChunks: reload_linked_chunks over every bounded chain and anchor *)

\* Defaults of the variables a specification does not use.
NoLast == [kind |-> "Init"]

NoMode == [kind |-> "None"]

NoRoom == [open |-> FALSE]

NoMessage == [m |-> "NoMessage"]

NoTasks == [room_list |-> "none", timeline |-> "none", logger |-> "none"]

NoApplied == [to |-> "nothing"]

NoIteration == [updates |-> 0, renders |-> 0]

\* App::new, Model::new: the state before App::run enters its loop.
InitApp ==
    /\ exit = FALSE
    /\ mode = NoMode
    /\ room = NoRoom
    /\ queue = <<>>
    /\ pc = "loop"
    /\ next_message = NoMessage
    /\ tasks = NoTasks
    /\ applied = NoApplied
    /\ iteration = NoIteration

\* A result left by an earlier reload.
StaleChunks == <<<<7, [kind |-> "Gap", prev_token |-> "t0"]>>>>

InitChunks ==
    /\ store \in Chains
    /\ linked_chunks \in {<<>>, StaleChunks}
    /\ items = <<>>
    /\ scroll_position = 0
    /\ details = "None"
    /\ last = NoLast
    /\ panicked = FALSE
    /\ InitApp

\* One call of reload_linked_chunks(&mut linked_chunks, .., first_event_id).
Reload(first_event_id) ==
    LET r == reload_linked_chunks(store, first_event_id)
    IN /\ linked_chunks' = r.chunks
       /\ last' = [kind |-> "Reload", first |-> first_event_id, loaded |-> r.loaded,
                   calls |-> r.calls, some |-> r.some]
       /\ UNCHANGED <<items, scroll_position, details, store, panicked>>
       /\ UNCHANGED appVars

ReloadAnchored ==
    \E first_event_id \in EventIds : Reload(first_event_id)

ReloadUnanchored ==
    Reload(None)

NextChunks ==
    \/ ReloadAnchored
    \/ ReloadUnanchored

SpecChunks == InitChunks /\ [][NextChunks]_vars

----------------------------------------------------------------------------
(* timeline::Model::update *)

Scrolls == {"Up", "Down", "Start", "End"}

DetailsValues == {"None", "EventId", "Origin", "LinkedChunk"}

\* Mutant: Up and Down forget to clamp against the number of items.
update_scroll_position_for_timeline_unclamped(scroll, position, its) ==
    CASE scroll = "Up" -> saturating_add(position, 1)
      [] scroll = "Down" -> saturating_sub(position, 1)
      [] scroll = "Start" -> saturating_sub(Len(its), MINIMUM_NUMBER_OF_VISIBLE_ITEMS)
      [] scroll = "End" -> 0

update_scroll_position_for_timeline(scroll, position, its) ==
    CASE scroll = "Up" ->
            min(saturating_sub(Len(its), MINIMUM_NUMBER_OF_VISIBLE_ITEMS),
                saturating_add(position, 1))
      [] scroll = "Down" ->
            min(saturating_sub(Len(its), MINIMUM_NUMBER_OF_VISIBLE_ITEMS),
                saturating_sub(position, 1))
      [] scroll = "Start" -> saturating_sub(Len(its), MINIMUM_NUMBER_OF_VISIBLE_ITEMS)
      [] scroll = "End" -> 0

update_scroll_position_for_linked_chunk(scroll, position) ==
    CASE scroll = "Up" -> saturating_add(position, 1)
      [] scroll = "Down" -> saturating_sub(position, 1)
      [] scroll = "Start" -> USIZE_MAX
      [] scroll = "End" -> 0

\* self.items.iter().find_map(|item| item.as_event()?.event_id())
first_event_id_of(its) ==
    LET with_id == {i \in 1..Len(its) : its[i] # 0}
    IN IF with_id = {} THEN None
       ELSE its[CHOOSE i \in with_id : \A j \in with_id : i <= j]

\* Mutant: only the last diff of the batch decides whether to recompute.
recompute_linked_chunks_last_diff_only(flag, diffs) ==
    diffs # <<>> /\ diffs[Len(diffs)].op # "Set"

\* The flag recompute_linked_chunks after the loop over the batch.
RECURSIVE recompute_linked_chunks(_, _)
recompute_linked_chunks(flag, diffs) ==
    IF diffs = <<>> THEN flag
    ELSE recompute_linked_chunks(
            IF ~flag /\ Head(diffs).op # "Set" THEN TRUE ELSE flag, Tail(diffs))

\* Mutant: ShowDetails resets the offset on every change of view.
show_details_resets_always(from, to) ==
    from # to

\* The matches!(..) of Message::ShowDetails: the view changes that reset the offset.
show_details_resets(from, to) ==
    \/ from \in {"None", "EventId"} /\ to = "LinkedChunk"
    \/ from = "LinkedChunk" /\ to \in {"None", "EventId"}

\* An update that clamps the offset to the items the batch left.
TlUpdate_clamps_offset(diffs) ==
    /\ ~panicked
    /\ LET r == apply_all(items, diffs)
           non_set == \E i \in 1..Len(diffs) : diffs[i].op # "Set"
       IN IF ~r.ok
          THEN /\ panicked' = TRUE
               /\ last' = [kind |-> "Panic"]
               /\ UNCHANGED <<items, linked_chunks, scroll_position, details, store>>
          ELSE /\ Len(r.v) <= MaxLen
               /\ items' = r.v
               /\ IF recompute_linked_chunks(FALSE, diffs)
                  THEN LET rl == reload_linked_chunks(store, first_event_id_of(r.v))
                       IN /\ linked_chunks' = rl.chunks
                          /\ last' = [kind |-> "Update", non_set |-> non_set,
                                      reloads |-> 1, calls |-> rl.calls,
                                      had_chunks |-> linked_chunks # <<>>]
                  ELSE /\ linked_chunks' = linked_chunks
                       /\ last' = [kind |-> "Update", non_set |-> non_set,
                                   reloads |-> 0, calls |-> 0,
                                   had_chunks |-> linked_chunks # <<>>]
               /\ scroll_position' =
                     min(scroll_position,
                         saturating_sub(Len(r.v), MINIMUM_NUMBER_OF_VISIBLE_ITEMS))
               /\ UNCHANGED <<details, store, panicked>>

\* Message::Update(diffs)
TlUpdate(diffs) ==
    /\ ~panicked
    /\ LET r == apply_all(items, diffs)
           non_set == \E i \in 1..Len(diffs) : diffs[i].op # "Set"
       IN IF ~r.ok
          THEN /\ panicked' = TRUE
               /\ last' = [kind |-> "Panic"]
               /\ UNCHANGED <<items, linked_chunks, scroll_position, details, store>>
          ELSE /\ Len(r.v) <= MaxLen
               /\ items' = r.v
               /\ IF recompute_linked_chunks(FALSE, diffs)
                  THEN LET rl == reload_linked_chunks(store, first_event_id_of(r.v))
                       IN /\ linked_chunks' = rl.chunks
                          /\ last' = [kind |-> "Update", non_set |-> non_set,
                                      reloads |-> 1, calls |-> rl.calls,
                                      had_chunks |-> linked_chunks # <<>>]
                  ELSE /\ linked_chunks' = linked_chunks
                       /\ last' = [kind |-> "Update", non_set |-> non_set,
                                   reloads |-> 0, calls |-> 0,
                                   had_chunks |-> linked_chunks # <<>>]
               /\ UNCHANGED <<scroll_position, details, store, panicked>>

\* Message::Scroll(scroll)
TlScroll(scroll) ==
    /\ ~panicked
    \* The provisional offset of the linked-chunk view is unbounded in the code;
    \* the model keeps it in 0..MaxScroll and USIZE_MAX - 1..USIZE_MAX.
    /\ (details = "LinkedChunk" /\ scroll = "Up")
          => (scroll_position < MaxScroll \/ scroll_position >= USIZE_MAX - 1)
    /\ (details = "LinkedChunk" /\ scroll = "Down")
          => (scroll_position <= MaxScroll \/ scroll_position = USIZE_MAX)
    /\ scroll_position' =
          IF details \in {"None", "EventId", "Origin"}
          THEN update_scroll_position_for_timeline(scroll, scroll_position, items)
          ELSE update_scroll_position_for_linked_chunk(scroll, scroll_position)
    /\ last' = [kind |-> "Scroll", scroll |-> scroll]
    /\ UNCHANGED <<items, linked_chunks, details, store, panicked>>

\* Message::PaginateBackwards: the result of the remote call is ignored.
TlPaginateBackwards ==
    /\ ~panicked
    /\ last' = [kind |-> "PaginateBackwards"]
    /\ UNCHANGED <<items, linked_chunks, scroll_position, details, store, panicked>>

\* Message::ShowDetails(details)
TlShowDetails(to) ==
    /\ ~panicked
    /\ scroll_position' = IF show_details_resets(details, to) THEN 0 ELSE scroll_position
    /\ details' = to
    /\ last' = [kind |-> "ShowDetails"]
    /\ UNCHANGED <<items, linked_chunks, store, panicked>>

\* Message::ToggleReactionOnLastMessage: the remote call is made when an event
\* item exists, and its result is unwrapped.
TlToggleReactionOnLastMessage(remote_ok) ==
    /\ ~panicked
    /\ panicked' = ((\E i \in 1..Len(items) : items[i] # 0) /\ ~remote_ok)
    /\ last' = IF panicked' THEN [kind |-> "Panic"] ELSE [kind |-> "ToggleReaction"]
    /\ UNCHANGED <<items, linked_chunks, scroll_position, details, store>>

----------------------------------------------------------------------------
(* SpecTimeline: one timeline::Model and the messages it receives *)

Items(e) == [kind |-> "Items", events |-> e]

Gap(t) == [kind |-> "Gap", gap |-> [prev_token |-> t]]

\* The chains the store of the room may hold in SpecTimeline.
TimelineStores ==
    { <<Items(<<0, 1>>), Gap("t1"), Items(<<2>>)>>,
      <<Gap("t2"), Items(<<2>>)>> }

\* Model::new(room, Some(input_sender))
InitTimeline ==
    /\ items = <<>>
    /\ linked_chunks = <<>>
    /\ scroll_position = 0
    /\ details = "None"
    /\ store \in TimelineStores
    /\ last = NoLast
    /\ panicked = FALSE
    /\ InitApp

Update ==
    /\ \E diffs \in Batches : TlUpdate(diffs)
    /\ UNCHANGED appVars

Scroll ==
    /\ \E scroll \in Scrolls : TlScroll(scroll)
    /\ UNCHANGED appVars

PaginateBackwards ==
    /\ TlPaginateBackwards
    /\ UNCHANGED appVars

ShowDetails ==
    /\ \E to \in DetailsValues : TlShowDetails(to)
    /\ UNCHANGED appVars

ToggleReactionOnLastMessage ==
    /\ \E remote_ok \in BOOLEAN : TlToggleReactionOnLastMessage(remote_ok)
    /\ UNCHANGED appVars

NextTimeline ==
    \/ Update
    \/ Scroll
    \/ PaginateBackwards
    \/ ShowDetails
    \/ ToggleReactionOnLastMessage

SpecTimeline == InitTimeline /\ [][NextTimeline]_vars

----------------------------------------------------------------------------
(* input.rs: the inputs of the channel and their mapping to messages *)

\* KeyCode values with a binding in some mode; "x" is any other key.
KeyCodes ==
    {"Esc", "q", " ", "r", "i", "Up", "Down", "f", "S", "s", "c", "l", "Enter",
     "b", "e", "t", "o", "m", "Right", "Left", "x"}

\* Input::Redraw
Redraw == [kind |-> "Redraw"]

\* Input::KeyPress(key_event)
KeyPress(code) == [kind |-> "KeyPress", code |-> code]

\* History of a forwarded batch, which the Input does not carry: whether it is
\* the first batch of its subscription, and whether the sub-model that owned
\* the subscription has been dropped since the batch was sent.
Origin(first) == [first |-> first, dropped |-> FALSE]

\* Input::RoomListUpdate(diffs)
RoomListUpdate(diffs, origin) ==
    [kind |-> "RoomListUpdate", diffs |-> diffs, origin |-> origin]

\* Input::TimelineUpdate(diffs)
TimelineUpdate(diffs, origin) ==
    [kind |-> "TimelineUpdate", diffs |-> diffs, origin |-> origin]

\* app::Message and the messages of the sub-models.
Quit == [m |-> "Quit"]

OpenRoom(r) == [m |-> "OpenRoom", room |-> r]

RoomMessage(msg) == [m |-> "Room", msg |-> msg]

ModeMessage(md) == [m |-> "Mode", mode |-> md]

SpaceMessage(msg) == [m |-> "Space", msg |-> msg]

RoomListMessage(msg) == [m |-> "RoomList", msg |-> msg]

LoggerMessage(msg) == [m |-> "Logger", msg |-> msg]

\* room::Message::Timeline(message)
Timeline(msg) == [r |-> "Timeline", msg |-> msg]

\* mode::space::Model::new: the model holds handles only.
SpaceMode == [kind |-> "Space"]

\* mode::room::Model::new(has_room_opened)
RoomMode(has_room_opened) == [kind |-> "Room", has_room_opened |-> has_room_opened]

\* The match on the key code under the mode, for a key that is not Esc.
map_code(code, md, rm) ==
    CASE md.kind = "None" ->
            CASE code = "q" -> Quit
              [] code = " " -> ModeMessage(SpaceMode)
              [] code = "r" -> ModeMessage(RoomMode(rm.open))
              [] code = "i" -> ModeMessage([kind |-> "Insert"])
              [] code = "Up" -> RoomMessage(Timeline([t |-> "Scroll", scroll |-> "Up"]))
              [] code = "Down" -> RoomMessage(Timeline([t |-> "Scroll", scroll |-> "Down"]))
              [] OTHER -> NoMessage
      [] md.kind = "Insert" -> RoomMessage([r |-> "UpdateMessage", code |-> code])
      [] md.kind = "Space" ->
            CASE code = "f" -> SpaceMessage("OpenRoomList")
              [] code = "S" -> SpaceMessage("StartSyncService")
              [] code = "s" -> SpaceMessage("StopSyncService")
              [] code = "c" -> SpaceMessage("EmptyEventCache")
              [] code = "l" -> SpaceMessage("OpenLogger")
              [] OTHER -> NoMessage
      [] md.kind = "RoomList" ->
            CASE code = "Up" -> RoomListMessage([l |-> "MoveCursorUp"])
              [] code = "Down" -> RoomListMessage([l |-> "MoveCursorDown"])
              [] code = "Enter" -> RoomListMessage([l |-> "Select"])
              [] OTHER -> RoomListMessage([l |-> "UpdateFilter", code |-> code])
      [] md.kind = "Room" ->
            CASE code = "b" -> RoomMessage(Timeline([t |-> "PaginateBackwards"]))
              [] code = "r" -> RoomMessage(Timeline([t |-> "ToggleReactionOnLastMessage"]))
              [] code = "s" -> RoomMessage(Timeline([t |-> "Scroll", scroll |-> "Start"]))
              [] code = "e" -> RoomMessage(Timeline([t |-> "Scroll", scroll |-> "End"]))
              [] code = "t" -> RoomMessage(Timeline([t |-> "ShowDetails", details |-> "None"]))
              [] code = "i" -> RoomMessage(Timeline([t |-> "ShowDetails", details |-> "EventId"]))
              [] code = "o" -> RoomMessage(Timeline([t |-> "ShowDetails", details |-> "Origin"]))
              [] code = "l" ->
                    RoomMessage(Timeline([t |-> "ShowDetails", details |-> "LinkedChunk"]))
              [] code = "m" -> RoomMessage([r |-> "MarkAsRead"])
              [] code = "c" -> RoomMessage([r |-> "EmptyEventCache"])
              [] OTHER -> NoMessage
      [] md.kind = "Logger" ->
            CASE code = "l" -> LoggerMessage("OpenCommandPanel")
              [] code = "Up" -> LoggerMessage("ScrollUp")
              [] code = "Down" -> LoggerMessage("ScrollDown")
              [] code = "Right" -> LoggerMessage("IncreaseShownLogLevel")
              [] code = "Left" -> LoggerMessage("DecreaseShownLogLevel")
              [] code = "s" -> LoggerMessage("FocusFilter")
              [] code = "f" -> LoggerMessage("ToggleFilters")
              [] OTHER -> NoMessage

\* Mutant: the Insert mode sees Esc before the Esc arm does.
map_key_event_to_message_mode_first(code, md, rm) ==
    IF code = "Esc" /\ md.kind # "Insert" THEN ModeMessage(NoMode) ELSE map_code(code, md, rm)

\* A key map that reads the keys of the Insert mode as it reads those of None.
map_key_event_to_message_insert_as_home(code, md, rm) ==
    IF code = "Esc" THEN ModeMessage(NoMode)
    ELSE map_code(code, IF md.kind = "Insert" THEN NoMode ELSE md, rm)

\* A key map where q quits from every mode.
map_key_event_to_message_q_first(code, md, rm) ==
    IF code = "Esc" THEN ModeMessage(NoMode)
    ELSE IF code = "q" THEN Quit
    ELSE map_code(code, md, rm)

\* map_key_event_to_message: Esc is matched before the mode.
map_key_event_to_message(code, md, rm) ==
    IF code = "Esc" THEN ModeMessage(NoMode) ELSE map_code(code, md, rm)

\* A mapping in which a redraw leaves the mode, as Esc does.
map_input_to_message_redraw_leaves_mode(input, md, rm) ==
    CASE input.kind = "Redraw" -> ModeMessage(NoMode)
      [] input.kind = "KeyPress" -> map_key_event_to_message(input.code, md, rm)
      [] input.kind = "RoomListUpdate" ->
            RoomListMessage([l |-> "UpdateRoomList", diffs |-> input.diffs,
                             origin |-> input.origin])
      [] input.kind = "TimelineUpdate" ->
            RoomMessage(Timeline([t |-> "Update", diffs |-> input.diffs,
                                  origin |-> input.origin]))

\* map_input_to_message, after recv() has returned the input.
map_input_to_message(input, md, rm) ==
    CASE input.kind = "Redraw" -> NoMessage
      [] input.kind = "KeyPress" -> map_key_event_to_message(input.code, md, rm)
      [] input.kind = "RoomListUpdate" ->
            RoomListMessage([l |-> "UpdateRoomList", diffs |-> input.diffs,
                             origin |-> input.origin])
      [] input.kind = "TimelineUpdate" ->
            RoomMessage(Timeline([t |-> "Update", diffs |-> input.diffs,
                                  origin |-> input.origin]))

----------------------------------------------------------------------------
(* The producer tasks that send into the channel *)

\* channel(128): the number of inputs the channel holds in the model.
Capacity == 3

\* The stream of entries_with_dynamic_adapters for the one room the room list
\* service knows: a snapshot first, updates after.
RoomListSnapshot == <<[op |-> "Reset", values |-> <<"!r1">>]>>

RoomListStream == { <<[op |-> "Set", index |-> 0, value |-> "!r1"]>> }

\* timeline.subscribe(): the initial items, then the batches of the stream.
initial_items == <<2>>

TimelineStream == { <<[op |-> "Set", index |-> 0, value |-> 1]>> }

\* The AbortOnDrop handle of a forwarder is dropped with the sub-model that owns
\* it: the forwarder sends nothing more, and what it has sent stays in the channel.
Dropped(q, kind) ==
    [i \in 1..Len(q) |->
        IF q[i].kind = kind THEN [q[i] EXCEPT !.origin.dropped = TRUE] ELSE q[i]]

\* A send that gives up when the channel is full (try_send) and lets the
\* sender go on.
Send_or_drop(input, cap) ==
    /\ ~panicked
    /\ pc # "done"
    /\ queue' = IF Len(queue) < cap THEN Append(queue, input) ELSE queue
    /\ UNCHANGED <<tlVars, exit, mode, room, pc, next_message, applied, iteration>>

\* Sender::send(input).await: completes when the channel has room.
Send(input, cap) ==
    /\ ~panicked
    /\ pc # "done"
    /\ Len(queue) < cap
    /\ queue' = Append(queue, input)
    /\ UNCHANGED <<tlVars, exit, mode, room, pc, next_message, applied, iteration>>

\* handle_terminal_events_task, Event::Key with kind Press
KeyPressed(codes, cap) ==
    /\ \E code \in codes : Send(KeyPress(code), cap)
    /\ UNCHANGED tasks

\* handle_terminal_events_task, Event::Resize
Resized(cap) ==
    /\ Send(Redraw, cap)
    /\ UNCHANGED tasks

\* handle_sync_service_states_task
handle_sync_service_states_task(cap) ==
    /\ Send(Redraw, cap)
    /\ UNCHANGED tasks

\* room_list_updates_task: one iteration of its loop
room_list_updates_task(cap) ==
    /\ tasks.room_list # "none"
    /\ \E diffs \in (IF tasks.room_list = "first" THEN {RoomListSnapshot} ELSE RoomListStream) :
          Send(RoomListUpdate(diffs, Origin(tasks.room_list = "first")), cap)
    /\ tasks' = [tasks EXCEPT !.room_list = "stream"]

\* items_updates_task: the Reset of the initial items, then one iteration of its loop
items_updates_task(cap) ==
    /\ tasks.timeline # "none"
    /\ \E diffs \in (IF tasks.timeline = "first"
                     THEN {<<[op |-> "Reset", values |-> initial_items]>>}
                     ELSE TimelineStream) :
          Send(TimelineUpdate(diffs, Origin(tasks.timeline = "first")), cap)
    /\ tasks' = [tasks EXCEPT !.timeline = "stream"]

\* log_updates_task: one tick
log_updates_task(cap) ==
    /\ tasks.logger # "none"
    /\ Send(Redraw, cap)
    /\ UNCHANGED tasks

----------------------------------------------------------------------------
(* app.rs: App::run and Model::update, with the updates of the sub-models *)

\* ListState::selected() of the room list when nothing is selected.
NoSelection == -1

\* The heights of the area the timeline is rendered in.
AreaHeights == {3, 12}

\* The chunk chain of the store in the specifications of the application.
AppStore == <<Items(<<1>>), Gap("t1"), Items(<<2>>)>>

\* mode::room_list::Model::new
RoomListMode ==
    [kind |-> "RoomList", rooms |-> <<>>, selected |-> NoSelection,
     filtered |-> FALSE, preview |-> "none", synced |-> FALSE]

\* mode::logger::Model::new
LoggerMode ==
    [kind |-> "Logger", command_panel_is_opened |-> FALSE, filters_are_visible |-> FALSE]

\* A lookup that forgets the selection and takes the first room.
selected_room_ignores_selection(rooms, selected) ==
    IF rooms = <<>> THEN "none" ELSE rooms[1]

\* rooms.get(list_state.selected().unwrap_or(0))
selected_room(rooms, selected) ==
    LET index == IF selected = NoSelection THEN 0 ELSE selected
    IN IF index < Len(rooms) THEN rooms[index + 1] ELSE "none"

\* The List widget rendered with list_state: an empty list clears the selection,
\* a selection past the end becomes the last item.
list_render(rooms, selected) ==
    IF rooms = <<>> THEN NoSelection
    ELSE IF selected # NoSelection /\ selected >= Len(rooms) THEN Len(rooms) - 1
    ELSE selected

\* The height of the text render_linked_chunk builds, in an area wide enough
\* for the event ids of a chunk to fit on one line.
RECURSIVE text_height(_)
text_height(chunks) ==
    IF chunks = <<>> THEN 1
    ELSE text_height(Tail(chunks)) + (IF Head(chunks)[2].kind = "Items" THEN 5 ELSE 1) + 1

\* The offset render_linked_chunk leaves in scroll_position.
render_linked_chunk(position, height, area_height) ==
    IF area_height > height THEN position ELSE min(position, height - area_height)

\* The while loop of App::run continues with `next`, or ends the chain.
Dispatch(next) ==
    /\ next_message' = next
    /\ pc' = IF next.m = "NoMessage" THEN "loop" ELSE "update"

\* A loop that goes back to its head, and to the render, after every call of update.
Chain_renders_between(next) ==
    /\ next_message' = next
    /\ pc' = "loop"
    /\ iteration' = [iteration EXCEPT !.updates = @ + 1]

\* next_message = self.model.update(message): one more call of update has returned.
Chain(next) ==
    /\ Dispatch(next)
    /\ iteration' = [iteration EXCEPT !.updates = @ + 1]

\* A panic of the main task ends the process.
Panicked ==
    /\ panicked' = TRUE
    /\ last' = [kind |-> "Panic"]
    /\ UNCHANGED <<items, linked_chunks, scroll_position, details, store>>

\* terminal.draw(|frame| self.model.render(..)) at the head of the loop
Render ==
    /\ ~panicked
    /\ pc = "loop"
    /\ ~exit
    /\ pc' = "recv"
    /\ mode' = IF mode.kind = "RoomList"
               THEN [mode EXCEPT !.selected = list_render(mode.rooms, mode.selected)]
               ELSE mode
    /\ \E area_height \in AreaHeights :
          scroll_position' =
              IF mode.kind # "Logger" /\ room.open /\ details = "LinkedChunk"
              THEN render_linked_chunk(scroll_position, text_height(linked_chunks), area_height)
              ELSE scroll_position
    /\ UNCHANGED <<items, linked_chunks, details, store, last, panicked>>
    /\ iteration' = [updates |-> 0, renders |-> iteration.renders + 1]
    /\ UNCHANGED <<exit, room, queue, next_message, tasks, applied>>

\* The loop ends: sync_service.stop(), and the tasks are dropped with the app.
Stop ==
    /\ ~panicked
    /\ pc = "loop"
    /\ exit
    /\ pc' = "done"
    /\ tasks' = NoTasks
    /\ UNCHANGED <<tlVars, exit, mode, room, queue, next_message, applied, iteration>>

\* A channel that hands out its newest input first.
Recv_takes_newest ==
    /\ ~panicked
    /\ pc = "recv"
    /\ queue # <<>>
    /\ queue' = SubSeq(queue, 1, Len(queue) - 1)
    /\ Dispatch(map_input_to_message(queue[Len(queue)], mode, room))
    /\ iteration' = [iteration EXCEPT !.renders = 0]
    /\ last' = [kind |-> "Input", input |-> queue[Len(queue)], mode |-> mode.kind,
                textarea |-> IF room.open THEN room.textarea ELSE "",
                selected |-> IF mode.kind = "RoomList" /\ mode.selected >= 0
                                   /\ mode.selected < Len(mode.rooms)
                             THEN mode.rooms[mode.selected + 1]
                             ELSE "none"]
    /\ UNCHANGED <<items, linked_chunks, scroll_position, details, store, panicked>>
    /\ UNCHANGED <<exit, mode, room, tasks, applied>>

\* map_input_to_message: recv() returns the oldest input of the channel.
Recv ==
    /\ ~panicked
    /\ pc = "recv"
    /\ queue # <<>>
    /\ queue' = Tail(queue)
    /\ Dispatch(map_input_to_message(Head(queue), mode, room))
    /\ iteration' = [iteration EXCEPT !.renders = 0]
    /\ last' = [kind |-> "Input", input |-> Head(queue), mode |-> mode.kind,
                textarea |-> IF room.open THEN room.textarea ELSE "",
                selected |-> IF mode.kind = "RoomList" /\ mode.selected >= 0
                                   /\ mode.selected < Len(mode.rooms)
                             THEN mode.rooms[mode.selected + 1]
                             ELSE "none"]
    /\ UNCHANGED <<items, linked_chunks, scroll_position, details, store, panicked>>
    /\ UNCHANGED <<exit, mode, room, tasks, applied>>

\* Message::Quit
UpdateQuit ==
    /\ ~panicked
    /\ pc = "update"
    /\ next_message.m = "Quit"
    /\ exit' = TRUE
    /\ Chain(NoMessage)
    /\ UNCHANGED <<tlVars, mode, room, queue, tasks, applied>>

\* Message::OpenRoom with a room list forwarder that outlives the mode it belongs to.
UpdateOpenRoom_keeps_room_list_task ==
    /\ ~panicked
    /\ pc = "update"
    /\ next_message.m = "OpenRoom"
    /\ mode' = NoMode
    /\ room' = [open |-> TRUE, id |-> next_message.room, textarea |-> "", received |-> FALSE,
                synced |-> FALSE]
    /\ items' = <<>>
    /\ linked_chunks' = <<>>
    /\ scroll_position' = 0
    /\ details' = "None"
    /\ tasks' = [tasks EXCEPT !.timeline = "first", !.logger = "none"]
    /\ queue' = Dropped(queue, "TimelineUpdate")
    /\ Chain(NoMessage)
    /\ UNCHANGED <<store, last, panicked, exit, applied>>

\* Message::OpenRoom(room): the mode and the room are replaced, which drops the
\* forwarders they own; Model::new of the room spawns items_updates_task.
\* received and synced are history: the room's timeline has applied a batch,
\* and a batch of its own subscription.
UpdateOpenRoom ==
    /\ ~panicked
    /\ pc = "update"
    /\ next_message.m = "OpenRoom"
    /\ mode' = NoMode
    /\ room' = [open |-> TRUE, id |-> next_message.room, textarea |-> "", received |-> FALSE,
                synced |-> FALSE]
    /\ items' = <<>>
    /\ linked_chunks' = <<>>
    /\ scroll_position' = 0
    /\ details' = "None"
    /\ tasks' = [room_list |-> "none", timeline |-> "first", logger |-> "none"]
    /\ queue' = Dropped(Dropped(queue, "RoomListUpdate"), "TimelineUpdate")
    /\ Chain(NoMessage)
    /\ UNCHANGED <<store, last, panicked, exit, applied>>

\* A Mode(None) that leaves the active mode in place.
UpdateMode_ignores_none ==
    /\ ~panicked
    /\ pc = "update"
    /\ next_message.m = "Mode"
    /\ mode' = IF next_message.mode.kind = "None" THEN mode ELSE next_message.mode
    /\ tasks' = [tasks EXCEPT
                    !.room_list = IF next_message.mode.kind = "RoomList" THEN @ ELSE "none",
                    !.logger = IF next_message.mode.kind = "Logger" THEN @ ELSE "none"]
    /\ queue' = IF mode.kind = "RoomList" THEN Dropped(queue, "RoomListUpdate") ELSE queue
    /\ Chain(NoMessage)
    /\ UNCHANGED <<tlVars, exit, room, applied>>

\* A mode that can only be entered from None: an active mode stays under the new one.
UpdateMode_keeps_active_mode ==
    /\ ~panicked
    /\ pc = "update"
    /\ next_message.m = "Mode"
    /\ mode' = IF mode.kind = "None" THEN next_message.mode ELSE mode
    /\ tasks' = [tasks EXCEPT
                    !.room_list = IF next_message.mode.kind = "RoomList" THEN @ ELSE "none",
                    !.logger = IF next_message.mode.kind = "Logger" THEN @ ELSE "none"]
    /\ queue' = IF mode.kind = "RoomList" THEN Dropped(queue, "RoomListUpdate") ELSE queue
    /\ Chain(NoMessage)
    /\ UNCHANGED <<tlVars, exit, room, applied>>

\* Message::Mode(mode): the previous mode is dropped.
UpdateMode ==
    /\ ~panicked
    /\ pc = "update"
    /\ next_message.m = "Mode"
    /\ mode' = next_message.mode
    /\ tasks' = [tasks EXCEPT
                    !.room_list = IF next_message.mode.kind = "RoomList" THEN @ ELSE "none",
                    !.logger = IF next_message.mode.kind = "Logger" THEN @ ELSE "none"]
    /\ queue' = IF mode.kind = "RoomList" THEN Dropped(queue, "RoomListUpdate") ELSE queue
    /\ Chain(NoMessage)
    /\ UNCHANGED <<tlVars, exit, room, applied>>

\* What the text editor holds after a key: a key that types makes it non-empty,
\* a cursor key leaves it.
handle_input(text, code) ==
    IF code \in {"Up", "Down", "Left", "Right", "Esc"} THEN text ELSE "text"

\* A SendMessage that leaves the timeline where it was scrolled to.
room_update_send_keeps_offset(msg) ==
    CASE msg.r = "UpdateMessage" ->
            /\ IF msg.code = "Enter"
               THEN /\ Chain(RoomMessage([r |-> "SendMessage"]))
                    /\ room' = room
               ELSE /\ Chain(NoMessage)
                    /\ room' = [room EXCEPT !.textarea = handle_input(@, msg.code)]
            /\ UNCHANGED <<tlVars, applied>>
      [] msg.r = "SendMessage" ->
            /\ room' = [room EXCEPT !.textarea = ""]
            /\ \E remote_ok \in BOOLEAN :
                  IF room.textarea # "" /\ ~remote_ok THEN Panicked ELSE UNCHANGED tlVars
            /\ Chain(ModeMessage(NoMode))
            /\ UNCHANGED applied
      [] msg.r = "Timeline" ->
            /\ CASE msg.msg.t = "Update" ->
                       /\ TlUpdate(msg.msg.diffs)
                       /\ room' = [room EXCEPT !.received = TRUE,
                                               !.synced = @ \/ ~msg.msg.origin.dropped]
                       /\ applied' = [to |-> "timeline", origin |-> msg.msg.origin,
                                      received |-> room.received, synced |-> room.synced]
                 [] msg.msg.t = "Scroll" ->
                       /\ TlScroll(msg.msg.scroll)
                       /\ UNCHANGED <<room, applied>>
                 [] msg.msg.t = "PaginateBackwards" ->
                       /\ TlPaginateBackwards
                       /\ UNCHANGED <<room, applied>>
                 [] msg.msg.t = "ShowDetails" ->
                       /\ TlShowDetails(msg.msg.details)
                       /\ UNCHANGED <<room, applied>>
                 [] msg.msg.t = "ToggleReactionOnLastMessage" ->
                       /\ \E remote_ok \in BOOLEAN : TlToggleReactionOnLastMessage(remote_ok)
                       /\ UNCHANGED <<room, applied>>
            /\ Chain(ModeMessage(NoMode))
      [] msg.r = "MarkAsRead" ->
            /\ \E remote_ok \in BOOLEAN :
                  IF remote_ok THEN UNCHANGED tlVars ELSE Panicked
            /\ Chain(ModeMessage(NoMode))
            /\ UNCHANGED <<room, applied>>
      [] msg.r = "EmptyEventCache" ->
            /\ \E outcome \in {"cleared", "no cache", "failed"} :
                  CASE outcome = "cleared" ->
                          /\ store' = <<>>
                          /\ UNCHANGED <<items, linked_chunks, scroll_position, details,
                                         last, panicked>>
                    [] outcome = "no cache" -> UNCHANGED tlVars
                    [] outcome = "failed" -> Panicked
            /\ Chain(ModeMessage(NoMode))
            /\ UNCHANGED <<room, applied>>

\* room::Model::update(message), for the room that is open
room_update(msg) ==
    CASE msg.r = "UpdateMessage" ->
            /\ IF msg.code = "Enter"
               THEN /\ Chain(RoomMessage([r |-> "SendMessage"]))
                    /\ room' = room
               ELSE /\ Chain(NoMessage)
                    /\ room' = [room EXCEPT !.textarea = handle_input(@, msg.code)]
            /\ UNCHANGED <<tlVars, applied>>
      [] msg.r = "SendMessage" ->
            /\ room' = [room EXCEPT !.textarea = ""]
            /\ \E remote_ok \in BOOLEAN :
                  IF room.textarea # "" /\ ~remote_ok THEN Panicked ELSE TlScroll("End")
            /\ Chain(ModeMessage(NoMode))
            /\ UNCHANGED applied
      [] msg.r = "Timeline" ->
            /\ CASE msg.msg.t = "Update" ->
                       /\ TlUpdate(msg.msg.diffs)
                       /\ room' = [room EXCEPT !.received = TRUE,
                                               !.synced = @ \/ ~msg.msg.origin.dropped]
                       /\ applied' = [to |-> "timeline", origin |-> msg.msg.origin,
                                      received |-> room.received, synced |-> room.synced]
                 [] msg.msg.t = "Scroll" ->
                       /\ TlScroll(msg.msg.scroll)
                       /\ UNCHANGED <<room, applied>>
                 [] msg.msg.t = "PaginateBackwards" ->
                       /\ TlPaginateBackwards
                       /\ UNCHANGED <<room, applied>>
                 [] msg.msg.t = "ShowDetails" ->
                       /\ TlShowDetails(msg.msg.details)
                       /\ UNCHANGED <<room, applied>>
                 [] msg.msg.t = "ToggleReactionOnLastMessage" ->
                       /\ \E remote_ok \in BOOLEAN : TlToggleReactionOnLastMessage(remote_ok)
                       /\ UNCHANGED <<room, applied>>
            /\ Chain(ModeMessage(NoMode))
      [] msg.r = "MarkAsRead" ->
            /\ \E remote_ok \in BOOLEAN :
                  IF remote_ok THEN UNCHANGED tlVars ELSE Panicked
            /\ Chain(ModeMessage(NoMode))
            /\ UNCHANGED <<room, applied>>
      [] msg.r = "EmptyEventCache" ->
            /\ \E outcome \in {"cleared", "no cache", "failed"} :
                  CASE outcome = "cleared" ->
                          /\ store' = <<>>
                          /\ UNCHANGED <<items, linked_chunks, scroll_position, details,
                                         last, panicked>>
                    [] outcome = "no cache" -> UNCHANGED tlVars
                    [] outcome = "failed" -> Panicked
            /\ Chain(ModeMessage(NoMode))
            /\ UNCHANGED <<room, applied>>

\* A room message that leads home even when no room is open.
UpdateRoom_home_without_room ==
    /\ ~panicked
    /\ pc = "update"
    /\ next_message.m = "Room"
    /\ IF room.open
       THEN room_update(next_message.msg)
       ELSE /\ Chain(ModeMessage(NoMode))
            /\ UNCHANGED <<tlVars, room, applied>>
    /\ UNCHANGED <<exit, mode, queue, tasks>>

\* Message::Room(room_message)
UpdateRoom ==
    /\ ~panicked
    /\ pc = "update"
    /\ next_message.m = "Room"
    /\ IF room.open
       THEN room_update(next_message.msg)
       ELSE /\ Chain(NoMessage)
            /\ UNCHANGED <<tlVars, room, applied>>
    /\ UNCHANGED <<exit, mode, queue, tasks>>

\* mode::space::Model::update(message)
space_update(msg) ==
    CASE msg = "OpenRoomList" ->
            /\ tasks' = [tasks EXCEPT !.room_list = "first"]
            /\ Chain(ModeMessage(RoomListMode))
            /\ UNCHANGED tlVars
      [] msg = "OpenLogger" ->
            /\ tasks' = [tasks EXCEPT !.logger = "live"]
            /\ Chain(ModeMessage(LoggerMode))
            /\ UNCHANGED tlVars
      [] msg \in {"StartSyncService", "StopSyncService"} ->
            /\ Chain(ModeMessage(NoMode))
            /\ UNCHANGED <<tlVars, tasks>>
      [] msg = "EmptyEventCache" ->
            /\ \E store_ok \in BOOLEAN :
                  IF store_ok
                  THEN /\ store' = <<>>
                       /\ UNCHANGED <<items, linked_chunks, scroll_position, details,
                                      last, panicked>>
                  ELSE Panicked
            /\ Chain(ModeMessage(NoMode))
            /\ UNCHANGED tasks

\* Message::Space handed to the space model without a look at the mode.
UpdateSpace_in_any_mode ==
    /\ ~panicked
    /\ pc = "update"
    /\ next_message.m = "Space"
    /\ space_update(next_message.msg)
    /\ UNCHANGED <<exit, mode, room, queue, applied>>

\* Message::Space(space_message)
UpdateSpace ==
    /\ ~panicked
    /\ pc = "update"
    /\ next_message.m = "Space"
    /\ IF mode.kind = "Space"
       THEN space_update(next_message.msg)
       ELSE /\ Chain(NoMessage)
            /\ UNCHANGED <<tlVars, tasks>>
    /\ UNCHANGED <<exit, mode, room, queue, applied>>

\* A Select that leaves the room list when there is nothing to open.
room_list_update_select_leaves(msg) ==
    CASE msg.l = "UpdateFilter" ->
            /\ mode' = [mode EXCEPT
                            !.filtered = handle_input(IF @ THEN "text" ELSE "", msg.code) # ""]
            /\ Chain(NoMessage)
            /\ UNCHANGED <<tlVars, applied>>
      [] msg.l = "UpdateRoomList" ->
            LET r == apply_all(mode.rooms, msg.diffs)
                selected == IF mode.selected = NoSelection THEN 0 ELSE mode.selected
            IN /\ applied' = [to |-> "room list", origin |-> msg.origin,
                               synced |-> mode.synced]
               /\ IF r.ok
                  THEN /\ Len(r.v) <= MaxLen
                       /\ mode' = [mode EXCEPT !.rooms = r.v,
                                               !.selected = selected,
                                               !.preview = selected_room(r.v, selected),
                                               !.synced = @ \/ ~msg.origin.dropped]
                       /\ UNCHANGED tlVars
                  ELSE /\ mode' = mode
                       /\ Panicked
               /\ Chain(NoMessage)
      [] msg.l = "MoveCursorUp" ->
            LET selected == IF mode.selected = NoSelection THEN USIZE_MAX
                            ELSE saturating_sub(mode.selected, 1)
            IN /\ mode' = [mode EXCEPT !.selected = selected,
                                       !.preview = selected_room(mode.rooms, selected)]
               /\ Chain(NoMessage)
               /\ UNCHANGED <<tlVars, applied>>
      [] msg.l = "MoveCursorDown" ->
            LET selected == IF mode.selected = NoSelection THEN 0
                            ELSE saturating_add(mode.selected, 1)
            IN /\ mode' = [mode EXCEPT !.selected = selected,
                                       !.preview = selected_room(mode.rooms, selected)]
               /\ Chain(NoMessage)
               /\ UNCHANGED <<tlVars, applied>>
      [] msg.l = "Select" ->
            LET selected == selected_room(mode.rooms, mode.selected)
            IN /\ Chain(IF selected = "none" THEN ModeMessage(NoMode) ELSE OpenRoom(selected))
               /\ UNCHANGED <<tlVars, mode, applied>>

\* A batch after which the first room is selected, whatever was selected.
room_list_update_selects_first(msg) ==
    CASE msg.l = "UpdateFilter" ->
            /\ mode' = [mode EXCEPT
                            !.filtered = handle_input(IF @ THEN "text" ELSE "", msg.code) # ""]
            /\ Chain(NoMessage)
            /\ UNCHANGED <<tlVars, applied>>
      [] msg.l = "UpdateRoomList" ->
            LET r == apply_all(mode.rooms, msg.diffs)
                selected == 0
            IN /\ applied' = [to |-> "room list", origin |-> msg.origin,
                               synced |-> mode.synced]
               /\ IF r.ok
                  THEN /\ Len(r.v) <= MaxLen
                       /\ mode' = [mode EXCEPT !.rooms = r.v,
                                               !.selected = selected,
                                               !.preview = selected_room(r.v, selected),
                                               !.synced = @ \/ ~msg.origin.dropped]
                       /\ UNCHANGED tlVars
                  ELSE /\ mode' = mode
                       /\ Panicked
               /\ Chain(NoMessage)
      [] msg.l = "MoveCursorUp" ->
            LET selected == IF mode.selected = NoSelection THEN USIZE_MAX
                            ELSE saturating_sub(mode.selected, 1)
            IN /\ mode' = [mode EXCEPT !.selected = selected,
                                       !.preview = selected_room(mode.rooms, selected)]
               /\ Chain(NoMessage)
               /\ UNCHANGED <<tlVars, applied>>
      [] msg.l = "MoveCursorDown" ->
            LET selected == IF mode.selected = NoSelection THEN 0
                            ELSE saturating_add(mode.selected, 1)
            IN /\ mode' = [mode EXCEPT !.selected = selected,
                                       !.preview = selected_room(mode.rooms, selected)]
               /\ Chain(NoMessage)
               /\ UNCHANGED <<tlVars, applied>>
      [] msg.l = "Select" ->
            LET selected == selected_room(mode.rooms, mode.selected)
            IN /\ Chain(IF selected = "none" THEN NoMessage ELSE OpenRoom(selected))
               /\ UNCHANGED <<tlVars, mode, applied>>

\* mode::room_list::Model::update(message)
room_list_update(msg) ==
    CASE msg.l = "UpdateFilter" ->
            /\ mode' = [mode EXCEPT
                            !.filtered = handle_input(IF @ THEN "text" ELSE "", msg.code) # ""]
            /\ Chain(NoMessage)
            /\ UNCHANGED <<tlVars, applied>>
      [] msg.l = "UpdateRoomList" ->
            LET r == apply_all(mode.rooms, msg.diffs)
                selected == IF mode.selected = NoSelection THEN 0 ELSE mode.selected
            IN /\ applied' = [to |-> "room list", origin |-> msg.origin,
                               synced |-> mode.synced]
               /\ IF r.ok
                  THEN /\ Len(r.v) <= MaxLen
                       /\ mode' = [mode EXCEPT !.rooms = r.v,
                                               !.selected = selected,
                                               !.preview = selected_room(r.v, selected),
                                               !.synced = @ \/ ~msg.origin.dropped]
                       /\ UNCHANGED tlVars
                  ELSE /\ mode' = mode
                       /\ Panicked
               /\ Chain(NoMessage)
      [] msg.l = "MoveCursorUp" ->
            LET selected == IF mode.selected = NoSelection THEN USIZE_MAX
                            ELSE saturating_sub(mode.selected, 1)
            IN /\ mode' = [mode EXCEPT !.selected = selected,
                                       !.preview = selected_room(mode.rooms, selected)]
               /\ Chain(NoMessage)
               /\ UNCHANGED <<tlVars, applied>>
      [] msg.l = "MoveCursorDown" ->
            LET selected == IF mode.selected = NoSelection THEN 0
                            ELSE saturating_add(mode.selected, 1)
            IN /\ mode' = [mode EXCEPT !.selected = selected,
                                       !.preview = selected_room(mode.rooms, selected)]
               /\ Chain(NoMessage)
               /\ UNCHANGED <<tlVars, applied>>
      [] msg.l = "Select" ->
            LET selected == selected_room(mode.rooms, mode.selected)
            IN /\ Chain(IF selected = "none" THEN NoMessage ELSE OpenRoom(selected))
               /\ UNCHANGED <<tlVars, mode, applied>>

\* Message::RoomList(room_list_message)
UpdateRoomList ==
    /\ ~panicked
    /\ pc = "update"
    /\ next_message.m = "RoomList"
    /\ IF mode.kind = "RoomList"
       THEN room_list_update(next_message.msg)
       ELSE /\ Chain(NoMessage)
            /\ UNCHANGED <<tlVars, mode, applied>>
    /\ UNCHANGED <<exit, room, queue, tasks>>

\* A logger update that asks for itself again.
logger_update_again(msg) ==
    /\ mode' = mode
    /\ Chain(LoggerMessage(msg))

\* mode::logger::Model::update(message)
logger_update(msg) ==
    /\ mode' = [mode EXCEPT !.command_panel_is_opened = (msg = "OpenCommandPanel"),
                            !.filters_are_visible = IF msg = "ToggleFilters" THEN ~@ ELSE @]
    /\ Chain(NoMessage)

\* Message::Logger(logger_message)
UpdateLogger ==
    /\ ~panicked
    /\ pc = "update"
    /\ next_message.m = "Logger"
    /\ IF mode.kind = "Logger"
       THEN logger_update(next_message.msg)
       ELSE /\ Chain(NoMessage)
            /\ mode' = mode
    /\ UNCHANGED <<tlVars, exit, room, queue, tasks, applied>>

----------------------------------------------------------------------------
(* Spec: the main loop with the key presses and the forwarders of the room
   list and of the open room, all sharing the channel *)

\* App::new, and App::run up to its loop
Init ==
    /\ items = <<>>
    /\ linked_chunks = <<>>
    /\ scroll_position = 0
    /\ details = "None"
    /\ store = AppStore
    /\ last = NoLast
    /\ panicked = FALSE
    /\ InitApp

\* The keys that open the room list, open a room from it, and leave a mode.
Keys == {"Esc", " ", "f", "Enter", "q"}

TerminalEvents ==
    KeyPressed(Keys, Capacity)

RoomListUpdates ==
    room_list_updates_task(Capacity)

TimelineUpdates ==
    items_updates_task(Capacity)

Next ==
    \/ TerminalEvents
    \/ RoomListUpdates
    \/ TimelineUpdates
    \/ Render
    \/ Stop
    \/ Recv
    \/ UpdateQuit
    \/ UpdateOpenRoom
    \/ UpdateRoom
    \/ UpdateMode
    \/ UpdateSpace
    \/ UpdateRoomList

Spec == Init /\ [][Next]_vars


----------------------------------------------------------------------------
(* SpecModes: the keys that enter and leave every mode, with every producer of
   the channel; a producer sends when fewer than Backlog inputs wait in the
   channel *)

Backlog == 1

\* The keys that activate a mode, open a room, quit, and Esc.
ModeKeys == {"Esc", " ", "f", "l", "r", "i", "Enter", "q"}

ModesTerminalEvents ==
    KeyPressed(ModeKeys, Backlog)

ModesResized ==
    Resized(Backlog)

ModesSyncServiceStates ==
    handle_sync_service_states_task(Backlog)

ModesRoomListUpdates ==
    room_list_updates_task(Backlog)

ModesTimelineUpdates ==
    items_updates_task(Backlog)

ModesLogUpdates ==
    log_updates_task(Backlog)

NextModes ==
    \/ ModesTerminalEvents
    \/ ModesResized
    \/ ModesSyncServiceStates
    \/ ModesRoomListUpdates
    \/ ModesTimelineUpdates
    \/ ModesLogUpdates
    \/ Render
    \/ Stop
    \/ Recv
    \/ UpdateQuit
    \/ UpdateOpenRoom
    \/ UpdateRoom
    \/ UpdateMode
    \/ UpdateSpace
    \/ UpdateRoomList
    \/ UpdateLogger

SpecModes == Init /\ [][NextModes]_vars

----------------------------------------------------------------------------
(* Claims about the chunk reconstruction (SpecChunks) *)

\* What the debug view keeps of a chunk: item chunks verbatim, gap chunks
\* reduced to their continuation token.
Reduced(content) ==
    IF content.kind = "Items"
    THEN [kind |-> "Items", events |-> content.events]
    ELSE [kind |-> "Gap", prev_token |-> content.gap.prev_token]

\* The positions of the item chunks of the chain whose records include `a`.
AnchorChunks(st, a) ==
    {k \in 1..Len(st) : /\ st[k].kind = "Items"
                        /\ \E i \in 1..Len(st[k].events) : st[k].events[i] = a}

Newest(S) == CHOOSE k \in S : \A j \in S : j <= k

\* [Cn, Cn-1, .., Ck], reduced, with the identifiers.
TailFirst(st, k) ==
    [i \in 1..(Len(st) - k + 1) |-> <<Len(st) + 1 - i, Reduced(st[Len(st) + 1 - i])>>]

\* <<n, n-1, .., k>>
Downto(n, k) == [i \in 1..(n - k + 1) |-> n + 1 - i]

----------------------------------------------------------------------------
(* Claims about the timeline model (SpecTimeline) *)

\* The largest item-indexed offset: max(0, N - MINIMUM_NUMBER_OF_VISIBLE_ITEMS).
MaxOffset(n) == IF n > 3 THEN n - 3 ELSE 0

\* The details modes whose scrolling is item-indexed (Message::Scroll).
ItemIndexed == {"None", "EventId", "Origin"}

\* C1: in an item-indexed details mode, the offset stored by a Scroll message
\* is within [0, max(0, N - 3)], N the number of items.
C1_ScrollStaysClamped ==
    (last.kind = "Scroll" /\ details \in ItemIndexed)
    => (0 <= scroll_position /\ scroll_position <= MaxOffset(Len(items)))

\* Witness of C1: a Scroll message left the offset at the upper extreme of a
\* timeline of four items.
C1_Witness ==
    /\ last.kind = "Scroll"
    /\ last.scroll = "Up"
    /\ details \in ItemIndexed
    /\ Len(items) = 4
    /\ scroll_position = 1

\* C2 (as claimed): after a batch with a structural diff, in an item-indexed
\* details mode, the offset is within [0, max(0, length - 3)] for the new length.
C2_OffsetClampedAfterMutation ==
    (last.kind = "Update" /\ last.non_set /\ details \in ItemIndexed)
    => scroll_position <= MaxOffset(Len(items))

\* C3 (as claimed): a ShowDetails message that goes from an item-indexed mode
\* to LinkedChunk, or back, leaves the offset at 0.
C3_SwitchResetsOffset ==
    [][(/\ last'.kind = "ShowDetails"
        /\ \/ details \in ItemIndexed /\ details' = "LinkedChunk"
           \/ details = "LinkedChunk" /\ details' \in ItemIndexed)
       => scroll_position' = 0]_vars

\* C6: when a batch triggers the reconstruction and no item of the sequence
\* carries an event id, the reconstructed list is empty, whatever it held
\* before and whatever the chain of the store holds.
C6_NoAnchorYieldsEmptyResult ==
    (/\ last.kind = "Update"
     /\ last.reloads = 1
     /\ \A i \in 1..Len(items) : items[i] = 0)
    => linked_chunks = <<>>

\* Witness of C6: the list held chunks, and the reconstruction ran over a
\* non-empty chain for a non-empty sequence none of whose items carries an
\* event id.
C6_Witness ==
    /\ last.kind = "Update"
    /\ last.reloads = 1
    /\ last.had_chunks
    /\ items # <<>>
    /\ \A i \in 1..Len(items) : items[i] = 0
    /\ store # <<>>
    /\ linked_chunks = <<>>

\* What a reconstruction yields for chain st and anchor a.
Reconstruction(st, a) ==
    IF a = None THEN <<>>
    ELSE IF AnchorChunks(st, a) = {} THEN TailFirst(st, 1)
    ELSE TailFirst(st, Newest(AnchorChunks(st, a)))

\* C7: a batch triggers the reconstruction iff it holds a diff that is not
\* Set.  A batch of Set diffs only, or an empty one, leaves linked_chunks as it
\* was and calls the store not once; any other batch runs one reconstruction,
\* for the sequence as it is after the whole batch.
C7_ReloadIffStructuralDiff ==
    [][last'.kind = "Update"
       => IF last'.non_set
          THEN /\ last'.reloads = 1
               /\ last'.calls >= 1
               /\ linked_chunks' = Reconstruction(store, first_event_id_of(items'))
          ELSE /\ last'.reloads = 0
               /\ last'.calls = 0
               /\ linked_chunks' = linked_chunks]_vars

\* Witness of C7: after a batch of Set diffs the list still shows the chunks
\* of an anchor that the sequence no longer holds.
C7_Witness ==
    /\ last.kind = "Update"
    /\ ~last.non_set
    /\ last.reloads = 0
    /\ linked_chunks # <<>>
    /\ first_event_id_of(items) = None

----------------------------------------------------------------------------
(* Claims about the modes (SpecModes) *)

\* The last input the main loop took from the channel is a press of Esc.
EscTaken ==
    /\ last.kind = "Input"
    /\ last.input.kind = "KeyPress"
    /\ last.input.code = "Esc"

\* C8: from every mode, a press of Esc is mapped to Message::Mode(Mode::None)
\* and to nothing else; once its chain has completed the mode is None and the
\* forwarder or ticker that the previous mode owned is gone; the text editor of
\* the room holds what it held before the key.
C8_EscapeLeavesEveryMode ==
    EscTaken =>
        /\ pc = "update" => (next_message.m = "Mode" /\ next_message.mode.kind = "None")
        /\ pc # "update" =>
              (mode.kind = "None" /\ tasks.room_list = "none" /\ tasks.logger = "none")
        /\ room.open => room.textarea = last.textarea

\* Esc was pressed in the RoomList mode while a batch of its forwarder waited
\* in the channel; the chain has completed.
C8_Witness ==
    /\ EscTaken
    /\ last.mode = "RoomList"
    /\ pc = "loop"
    /\ mode.kind = "None"
    /\ tasks.room_list = "none"
    /\ \E i \in 1..Len(queue) : queue[i].kind = "RoomListUpdate" /\ queue[i].origin.dropped

----------------------------------------------------------------------------
(* Claims about the forwarders (Spec) *)

\* C9: a room-list batch that a room list model applies was never sent by the
\* subscription of a room list model that has been dropped.
C9_NoBatchOfLeftRoomListApplied ==
    applied.to = "room list" => ~applied.origin.dropped

\* C10: a timeline batch applied to the items of the open room was sent by the
\* subscription of that room, and the first batch a newly opened room applies is
\* the first batch of its subscription, the Reset of the initial items.
C10_TimelineBatchesComeFromOpenRoom ==
    applied.to = "timeline" =>
        /\ ~applied.origin.dropped
        /\ ~applied.received => applied.origin.first

----------------------------------------------------------------------------
(* The forwarders and the sub-models that own them *)

\* C11: whenever the main loop waits for the next input, the room list
\* forwarder is live exactly when the mode is RoomList, the logger ticker is
\* live exactly when the mode is Logger, the timeline forwarder is live exactly
\* when a room is open, and the preview timeline of the room list has spawned
\* no forwarder (with no room open there is none at all).
C11_TasksLiveWithTheirSubModels ==
    pc = "recv" =>
        /\ (tasks.room_list # "none") <=> (mode.kind = "RoomList")
        /\ (tasks.logger # "none") <=> (mode.kind = "Logger")
        /\ (tasks.timeline # "none") <=> room.open
        /\ (mode.kind = "RoomList" /\ mode.preview # "none" /\ ~room.open)
              => tasks.timeline = "none"

\* The room list shows a preview over an open room: one timeline forwarder,
\* the room's, next to the room list forwarder.
C11_Witness ==
    /\ pc = "recv"
    /\ mode.kind = "RoomList"
    /\ mode.preview # "none"
    /\ room.open
    /\ tasks.room_list = "stream"
    /\ tasks.timeline # "none"
    /\ tasks.logger = "none"

----------------------------------------------------------------------------
(* SpecUpdate: one input taken from the channel, or one message handed to
   Model::update, in every mode, with and without an open room; the chain of
   update calls that follows *)

\* The rooms of a room list model that has received its entries.
RoomLists == {<<>>, <<"!r1">>, <<"!r1", "!r2">>}

\* The room list models with these rooms, after a render: the selection is
\* inside the rooms, and the preview is the selected room.
RoomListModes(rooms) ==
    {[RoomListMode EXCEPT !.rooms = rooms, !.selected = selected, !.filtered = filtered,
                          !.preview = selected_room(rooms, selected),
                          !.synced = rooms # <<>>] :
        filtered \in BOOLEAN,
        selected \in {i \in NoSelection..1 : IF rooms = <<>> THEN i = NoSelection
                                             ELSE i >= 0 /\ i < Len(rooms)}}

\* The modes the main loop can be in when it waits in recv().
UpdateModes(rm) ==
    {NoMode, [kind |-> "Insert"], SpaceMode, RoomMode(rm.open)}
    \cup {[LoggerMode EXCEPT !.filters_are_visible = visible] : visible \in BOOLEAN}
    \cup UNION {RoomListModes(rooms) : rooms \in RoomLists}

\* No room, a room that has just been opened, and a room whose timeline has
\* received the initial items.
UpdateRooms ==
    {NoRoom}
    \cup {[open |-> TRUE, id |-> "!r1", textarea |-> textarea, received |-> received,
           synced |-> received] :
            textarea \in {"", "text"}, received \in BOOLEAN}

\* The forwarders that are live under the mode and the room.
UpdateTasks(md, rm) ==
    [room_list |-> IF md.kind # "RoomList" THEN "none"
                   ELSE IF md.rooms = <<>> THEN "first" ELSE "stream",
     timeline |-> IF ~rm.open THEN "none" ELSE IF rm.received THEN "stream" ELSE "first",
     logger |-> IF md.kind = "Logger" THEN "live" ELSE "none"]

\* What recv() can return: any key, a redraw, the next batch of a live
\* forwarder, or a batch that a forwarder sent before it was dropped.
UpdateKeys == {KeyPress(code) : code \in KeyCodes} \cup {Redraw}

RoomListBatch(md) ==
    IF md.kind = "RoomList" /\ md.rooms # <<>>
    THEN RoomListUpdate(<<[op |-> "Set", index |-> 0, value |-> "!r3"]>>, Origin(FALSE))
    ELSE RoomListUpdate(RoomListSnapshot, [first |-> TRUE, dropped |-> md.kind # "RoomList"])

TimelineBatch(rm) ==
    IF rm.open /\ rm.received
    THEN TimelineUpdate(<<[op |-> "Set", index |-> 0, value |-> 1]>>, Origin(FALSE))
    ELSE TimelineUpdate(<<[op |-> "Reset", values |-> initial_items]>>,
                        [first |-> TRUE, dropped |-> ~rm.open])

\* The messages of the modes, handed to Model::update whatever the mode is.
ModeMessages ==
    {SpaceMessage(msg) : msg \in {"OpenRoomList", "StartSyncService", "StopSyncService",
                                  "EmptyEventCache", "OpenLogger"}}
    \cup {RoomListMessage([l |-> l]) : l \in {"MoveCursorUp", "MoveCursorDown", "Select"}}
    \cup {RoomListMessage([l |-> "UpdateFilter", code |-> "x"])}
    \cup {LoggerMessage(msg) : msg \in {"OpenCommandPanel", "ScrollUp", "ToggleFilters"}}

InitUpdate ==
    /\ exit = FALSE
    /\ panicked = FALSE
    /\ last = NoLast
    /\ applied = NoApplied
    /\ store = AppStore
    /\ room \in UpdateRooms
    /\ mode \in UpdateModes(room)
    /\ tasks = UpdateTasks(mode, room)
    /\ items = IF room.open /\ room.received THEN initial_items ELSE <<>>
    /\ linked_chunks = <<>>
    /\ scroll_position = 0
    /\ details = "None"
    /\ \/ /\ pc = "recv"
          /\ \/ \E input \in UpdateKeys : queue = <<input>>
             \/ queue = <<RoomListBatch(mode)>>
             \/ queue = <<TimelineBatch(room)>>
          /\ next_message = NoMessage
          /\ iteration = [updates |-> 0, renders |-> 1]
       \/ /\ pc = "update"
          /\ queue = <<>>
          /\ next_message \in ModeMessages
          /\ iteration = [updates |-> 0, renders |-> 0]

NextUpdate ==
    \/ Recv
    \/ UpdateQuit
    \/ UpdateOpenRoom
    \/ UpdateRoom
    \/ UpdateMode
    \/ UpdateSpace
    \/ UpdateRoomList
    \/ UpdateLogger

SpecUpdate == InitUpdate /\ [][NextUpdate]_vars

\* C12: a chain of messages ends: counted from the input that was taken from
\* the channel (or from the message handed to update), update is called at most
\* 3 times, the third call returns no message, and as long as a message is
\* pending it is one that update handles.
C12_ChainsTerminate ==
    /\ iteration.updates <= 3
    /\ iteration.updates = 3 => pc # "update"
    /\ pc = "update" =>
          next_message.m \in {"Quit", "OpenRoom", "Room", "Mode", "Space", "RoomList", "Logger"}

\* Enter typed in Insert mode: UpdateMessage, SendMessage, Mode(None), then no
\* message.
C12_Witness ==
    /\ last.kind = "Scroll"
    /\ iteration.updates = 3
    /\ pc = "loop"
    /\ next_message = NoMessage
    /\ mode = NoMode
    /\ room.open
    /\ room.textarea = ""

\* Enter was taken from the channel in RoomList mode with a room under the
\* selection.
SelectTaken ==
    /\ last.kind = "Input"
    /\ last.input.kind = "KeyPress"
    /\ last.input.code = "Enter"
    /\ last.mode = "RoomList"
    /\ last.selected # "none"

\* C13: Enter in RoomList mode with a room under the selection runs Select,
\* then OpenRoom of that room, in at most 3 calls of update; when the chain has
\* ended the mode is None, the room list model and its forwarder are dropped,
\* and the open room is the room that was selected.
C13_SelectOpensTheSelectedRoom ==
    SelectTaken =>
        /\ iteration.updates <= 3
        /\ pc = "update" =>
              \/ iteration.updates = 0 /\ next_message = RoomListMessage([l |-> "Select"])
              \/ iteration.updates = 1 /\ next_message = OpenRoom(last.selected)
        /\ pc # "update" =>
              /\ next_message = NoMessage
              /\ mode = NoMode
              /\ tasks.room_list = "none"
              /\ room.open
              /\ room.id = last.selected
              /\ tasks.timeline = "first"

\* The second of two rooms was selected and is open now.
C13_Witness ==
    /\ SelectTaken
    /\ last.selected = "!r2"
    /\ pc = "loop"
    /\ iteration.updates = 2
    /\ mode = NoMode
    /\ room.open
    /\ room.id = "!r2"

----------------------------------------------------------------------------
(* The iterations of the main loop *)

\* Where the loop is, against the renders since the last recv().
RenderedOncePerInput ==
    /\ pc = "update" => iteration.renders = 0
    /\ pc = "loop" => (iteration.renders = 0 /\ next_message = NoMessage)
    /\ pc = "recv" => (iteration.renders = 1 /\ next_message = NoMessage /\ ~exit)
    /\ pc = "done" => (iteration.renders = 0 /\ exit)

\* C14: no render happens between the recv() of an input and the end of its
\* chain, exactly one render happens between the end of a chain and the next
\* recv(), and none once exit is set: a render starts with no message pending
\* and exit unset, and an input is taken only after exactly one render.
C14_ChainIsAtomicForRender ==
    /\ []RenderedOncePerInput
    /\ [][/\ iteration'.renders > iteration.renders
             => (~exit /\ next_message = NoMessage /\ pc = "loop" /\ iteration.renders = 0)
          /\ Len(queue') < Len(queue)
             => (iteration.renders = 1 /\ iteration'.renders = 0 /\ pc = "recv")]_vars

\* The chain of Enter in Insert mode (three calls of update) has ended, the one
\* render has followed, and the next input waits in the channel.
C14_Witness ==
    /\ pc = "recv"
    /\ last.kind = "Scroll"
    /\ mode = NoMode
    /\ iteration = [updates |-> 0, renders |-> 1]
    /\ queue # <<>>

----------------------------------------------------------------------------
(* Messages of a mode that is not the active one *)

\* The model: everything but the position of the loop and the history.
model == <<exit, mode, room, items, linked_chunks, scroll_position, details, store, tasks>>

\* C15: update called with a Space, RoomList or Logger message while the mode
\* is another one returns no message and changes nothing of the model, the
\* channel included.
C15_MessageOfAnotherModeIsIgnored ==
    [][(/\ pc = "update"
        /\ next_message.m \in {"Space", "RoomList", "Logger"}
        /\ mode.kind # next_message.m)
       => (/\ next_message' = NoMessage
           /\ pc' = "loop"
           /\ UNCHANGED <<model, queue, panicked, applied>>)]_vars

\* A batch of the room list forwarder was taken from the channel in a mode that
\* is not RoomList, and the one call of update has returned no message.
C15_Witness ==
    /\ last.kind = "Input"
    /\ last.input.kind = "RoomListUpdate"
    /\ last.mode = "Logger"
    /\ pc = "loop"
    /\ iteration.updates = 1
    /\ next_message = NoMessage
    /\ mode.kind = "Logger"
    /\ applied = NoApplied

----------------------------------------------------------------------------
(* SpecQueue: the main loop with the keys that open the room list and a room,
   and the two forwarders, filling the channel up to its capacity *)

QueueKeys == {" ", "f", "Enter"}

QueueTerminalEvents == KeyPressed(QueueKeys, Capacity)

QueueRoomListUpdates == room_list_updates_task(Capacity)

QueueTimelineUpdates == items_updates_task(Capacity)

NextQueue ==
    \/ QueueTerminalEvents
    \/ QueueRoomListUpdates
    \/ QueueTimelineUpdates
    \/ Render
    \/ Recv
    \/ UpdateOpenRoom
    \/ UpdateRoom
    \/ UpdateMode
    \/ UpdateSpace
    \/ UpdateRoomList

SpecQueue == Init /\ [][NextQueue]_vars

\* The inputs of a channel without the marks of the dropped forwarders.
Unmarked(q) ==
    [i \in 1..Len(q) |->
        IF q[i].kind \in {"RoomListUpdate", "TimelineUpdate"}
        THEN [q[i] EXCEPT !.origin.dropped = FALSE]
        ELSE q[i]]

\* The batch that a message carries to a sub-model, if it carries one.
BatchOf(message) ==
    CASE message.m = "RoomList" /\ message.msg.l = "UpdateRoomList" ->
            [kind |-> "RoomListUpdate", diffs |-> message.msg.diffs,
             origin |-> message.msg.origin]
      [] message.m = "Room" /\ message.msg.r = "Timeline" /\ message.msg.msg.t = "Update" ->
            [kind |-> "TimelineUpdate", diffs |-> message.msg.msg.diffs,
             origin |-> message.msg.msg.origin]
      [] OTHER -> [kind |-> "none"]

\* A sub-model that applies a batch of its own subscription applies the first
\* batch of the subscription when it has applied none of them yet, and a later
\* batch otherwise.
FirstBatchFirst ==
    (applied.to # "nothing" /\ ~applied.origin.dropped)
        => (applied.origin.first <=> ~applied.synced)

\* The channel is first in, first out, the main loop takes an input only when
\* the chain of the previous one has ended, and the batch it hands to the
\* sub-model is the one it took.
FifoStep ==
    /\ Len(queue') > Len(queue) => SubSeq(queue', 1, Len(queue)) = queue
    /\ Len(queue') = Len(queue) => Unmarked(queue') = Unmarked(queue)
    /\ Len(queue') < Len(queue) =>
          /\ queue' = Tail(queue)
          /\ pc = "recv"
          /\ next_message = NoMessage
          /\ Head(queue).kind \in {"RoomListUpdate", "TimelineUpdate"}
                => (BatchOf(next_message') = Head(queue) /\ pc' = "update")
    /\ applied' # applied =>
          /\ pc = "update"
          /\ applied'.origin = BatchOf(next_message).origin
          /\ BatchOf(next_message').kind = "none"

\* C16: within the stream of one forwarder the batches are applied in the
\* order they were sent, each at most once: the channel keeps the order and
\* hands out each input once, the sub-model applies the batch that was taken,
\* the first batch of a subscription is applied before its later batches and
\* only once; and the main loop takes the next input only after the chain of
\* the previous one has ended.
C16_BatchesAppliedInOrder == []FirstBatchFirst /\ [][FifoStep]_vars

\* A later batch of the open room's subscription has been applied after the
\* first one, while another batch of the same forwarder waits in the channel
\* behind a batch of the room list forwarder.
C16_Witness ==
    /\ applied.to = "timeline"
    /\ ~applied.origin.dropped
    /\ ~applied.origin.first
    /\ applied.synced
    /\ Len(queue) >= 2
    /\ queue[1].kind = "RoomListUpdate"
    /\ queue[2].kind = "TimelineUpdate"
    /\ ~queue[2].origin.dropped

----------------------------------------------------------------------------
(* Back-pressure of the channel *)

\* The first batch of a forwarder, as it sits in the channel.
FirstBatch(kind) ==
    IF kind = "room_list"
    THEN RoomListUpdate(RoomListSnapshot, Origin(TRUE))
    ELSE TimelineUpdate(<<[op |-> "Reset", values |-> initial_items]>>, Origin(TRUE))

\* The input is the first batch of the forwarder.
IsFirstBatch(input, kind) ==
    /\ input.kind = FirstBatch(kind).kind
    /\ input = FirstBatch(kind)

\* A forwarder moves on from its first batch only by appending it to the
\* channel, and while the channel is full nothing is appended and no forwarder
\* moves on.
BackPressureStep ==
    /\ \A kind \in {"room_list", "timeline"} :
          (tasks[kind] = "first" /\ tasks'[kind] = "stream")
              => /\ Len(queue) < Capacity
                 /\ Len(queue') = Len(queue) + 1
                 /\ SubSeq(queue', 1, Len(queue)) = queue
                 /\ IsFirstBatch(queue'[Len(queue')], kind)
    /\ Len(queue) >= Capacity =>
          /\ Len(queue') <= Len(queue)
          /\ \A kind \in {"room_list", "timeline"} :
                tasks[kind] = "first" => tasks'[kind] # "stream"

\* C17: the channel never holds more inputs than its capacity, and a forwarder
\* that finds it full keeps its batch until there is room: the batch is
\* appended when the forwarder moves on, never skipped.
C17_ChannelBoundedAndNoBatchDropped ==
    /\ [](Len(queue) <= Capacity)
    /\ [][BackPressureStep]_vars

\* The channel is full: its last input is the first batch of the open room's
\* forwarder, and the room list forwarder holds its first batch and waits.
C17_Witness ==
    /\ Len(queue) = Capacity
    /\ IsFirstBatch(queue[Capacity], "timeline")
    /\ tasks.timeline = "stream"
    /\ tasks.room_list = "first"
    /\ mode.kind = "RoomList"
    /\ room.open

----------------------------------------------------------------------------
(* The state that the batches of the two forwarders touch *)

\* A call of update inside the chain of a TimelineUpdate input.
InTimelineBatchChain ==
    /\ pc = "update"
    /\ iteration'.updates = iteration.updates + 1
    /\ \/ last.kind = "Input" /\ last.input.kind = "TimelineUpdate"
       \/ last.kind = "Update"

\* C18: handling a timeline batch changes the timeline of the open room only
\* and leaves the mode, with its sub-model and forwarder, as it is; handling a
\* room list batch leaves the open room and its timeline as they are.
C18_BatchesTouchDisjointState ==
    [][/\ InTimelineBatchChain
          => (/\ mode' = mode
              /\ tasks'.room_list = tasks.room_list
              /\ tasks'.logger = tasks.logger)
       /\ (/\ pc = "update"
           /\ iteration'.updates = iteration.updates + 1
           /\ BatchOf(next_message).kind = "RoomListUpdate")
          => (/\ UNCHANGED <<room, items, linked_chunks, scroll_position, details, store>>
              /\ tasks'.timeline = tasks.timeline
              /\ next_message' = NoMessage)]_vars

----------------------------------------------------------------------------
(* Redraw *)

\* C19: a status change of the sync service, a resize of the terminal and a
\* tick of the logger each append Input::Redraw to the channel and touch
\* nothing else; when the main loop takes a Redraw it maps to no message, update
\* is not called, and the model is unchanged.
C19_RedrawIsRedrawOnly ==
    [][/\ (Len(queue') > Len(queue) /\ queue'[Len(queue')].kind = "Redraw")
          => (/\ queue' = Append(queue, Redraw)
              /\ UNCHANGED <<model, pc, next_message, iteration, panicked, applied>>)
       /\ (Len(queue') < Len(queue) /\ Head(queue).kind = "Redraw")
          => (/\ next_message' = NoMessage
              /\ pc' = "loop"
              /\ iteration'.updates = 0
              /\ UNCHANGED <<model, panicked, applied>>)]_vars

\* In Logger mode over an open room whose timeline has items, a Redraw was
\* taken from the channel and the loop is back at its head.
C19_Witness ==
    /\ last.kind = "Input"
    /\ last.input.kind = "Redraw"
    /\ last.mode = "Logger"
    /\ pc = "loop"
    /\ next_message = NoMessage
    /\ iteration.updates = 0
    /\ mode.kind = "Logger"
    /\ tasks.logger = "live"
    /\ room.open
    /\ items # <<>>

----------------------------------------------------------------------------
(* SpecTerminal: handle_terminal_events_task reading the event stream of the
   terminal and filling the channel *)

\* KeyEventKind
KeyEventKinds == {"Press", "Release", "Repeat"}

\* What event_reader.next() yields: an event (a key event with its kind, a
\* resize, or another event), a read error, or the end of the stream.
TerminalReads ==
    {[read |-> "Key", kind |-> kind, code |-> code] : kind \in KeyEventKinds, code \in Keys}
    \cup {[read |-> r] : r \in {"Resize", "FocusGained", "FocusLost", "Mouse", "Paste",
                                "Error", "End"}}

NoInput == [kind |-> "nothing"]

\* A reader that does not look at the kind of a key event.
handle_terminal_event_any_kind(read) ==
    CASE read.read = "Key" -> KeyPress(read.code)
      [] read.read = "Resize" -> Redraw
      [] OTHER -> NoInput

\* The match of handle_terminal_events_task: the input that is sent for what
\* was read, if any.
handle_terminal_event(read) ==
    CASE read.read = "Key" /\ read.kind = "Press" -> KeyPress(read.code)
      [] read.read = "Resize" -> Redraw
      [] OTHER -> NoInput

\* handle_terminal_events_task: one iteration of its loop. last keeps what was
\* read.
handle_terminal_events_task(reads, cap) ==
    \E read \in reads :
        /\ ~panicked
        /\ pc # "done"
        /\ LET input == handle_terminal_event(read)
           IN IF input = NoInput
              THEN queue' = queue
              ELSE /\ Len(queue) < cap
                   /\ queue' = Append(queue, input)
        /\ last' = [kind |-> "Read", read |-> read]
        /\ UNCHANGED <<items, linked_chunks, scroll_position, details, store, panicked>>
        /\ UNCHANGED <<exit, mode, room, pc, next_message, tasks, applied, iteration>>

TerminalRead == handle_terminal_events_task(TerminalReads, Capacity)

NextTerminal == TerminalRead

SpecTerminal == Init /\ [][NextTerminal]_vars

\* C20: a key event is forwarded as Input::KeyPress exactly when its kind is
\* Press, a resize is forwarded as Input::Redraw, and a key event of kind
\* Release or Repeat, any other event, a read error and the end of the stream
\* leave the channel as it is.
C20_OnlyPressedKeysAreForwarded ==
    [][last'.kind = "Read" =>
        LET read == last'.read
            pressed == read.read = "Key" /\ read.kind = "Press"
        IN /\ pressed => (/\ Len(queue') = Len(queue) + 1
                          /\ queue'[Len(queue')] = KeyPress(read.code)
                          /\ SubSeq(queue', 1, Len(queue)) = queue)
           /\ read.read = "Resize" => queue' = Append(queue, Redraw)
           /\ (~pressed /\ read.read # "Resize") => queue' = queue]_vars

\* A key release was read after a key press: the channel holds the press only.
C20_Witness ==
    /\ last.kind = "Read"
    /\ last.read.read = "Key"
    /\ last.read.kind = "Release"
    /\ last.read.code = "q"
    /\ queue = <<KeyPress("f")>>

----------------------------------------------------------------------------
(* SpecClosed: the main loop over a channel that is closed and drained *)

\* The channel after every Sender has been dropped and every input taken:
\* recv() returns None at once. The queue holds this mark and nothing else.
Closed == [kind |-> "Closed"]

\* A loop that takes the closed channel for a request to quit.
RecvNone_quits ==
    /\ ~panicked
    /\ pc = "recv"
    /\ queue = <<Closed>>
    /\ exit' = TRUE
    /\ Dispatch(NoMessage)
    /\ iteration' = [iteration EXCEPT !.renders = 0]
    /\ last' = [kind |-> "Input", input |-> Closed, mode |-> mode.kind,
                textarea |-> IF room.open THEN room.textarea ELSE "", selected |-> "none"]
    /\ UNCHANGED <<items, linked_chunks, scroll_position, details, store, panicked>>
    /\ UNCHANGED <<mode, room, queue, tasks, applied>>

\* map_input_to_message: `input_receiver.recv().await?` returns None for the
\* closed channel, so there is no message and update is not called.
RecvNone ==
    /\ ~panicked
    /\ pc = "recv"
    /\ queue = <<Closed>>
    /\ Dispatch(NoMessage)
    /\ iteration' = [iteration EXCEPT !.renders = 0]
    /\ last' = [kind |-> "Input", input |-> Closed, mode |-> mode.kind,
                textarea |-> IF room.open THEN room.textarea ELSE "", selected |-> "none"]
    /\ UNCHANGED <<items, linked_chunks, scroll_position, details, store, panicked>>
    /\ UNCHANGED <<exit, mode, room, queue, tasks, applied>>

\* Any mode and room, at the head of the loop, with the channel closed.
InitClosed ==
    /\ exit = FALSE
    /\ panicked = FALSE
    /\ last = NoLast
    /\ applied = NoApplied
    /\ store = AppStore
    /\ room \in UpdateRooms
    /\ mode \in UpdateModes(room)
    /\ tasks = UpdateTasks(mode, room)
    /\ items = IF room.open /\ room.received THEN initial_items ELSE <<>>
    /\ linked_chunks = <<>>
    /\ scroll_position = 0
    /\ details = "None"
    /\ pc = "loop"
    /\ queue = <<Closed>>
    /\ next_message = NoMessage
    /\ iteration = NoIteration

NextClosed ==
    \/ Render
    \/ RecvNone

SpecClosed == InitClosed /\ [][NextClosed]_vars

\* C21: when recv() yields nothing because the channel is closed, there is no
\* message: update is not called, the model is unchanged, exit stays unset, and
\* the loop is back at its head, where the next render is enabled.
C21_ClosedChannelIsNoMessage ==
    [][(pc = "recv" /\ pc' # "recv" /\ queue = <<Closed>>)
       => (/\ next_message' = NoMessage
           /\ pc' = "loop"
           /\ iteration'.updates = 0
           /\ ~exit'
           /\ ~panicked'
           /\ UNCHANGED <<model, queue, applied>>)]_vars

C21_Witness ==
    /\ last.kind = "Input" /\ last.input.kind = "Closed"
    /\ pc = "recv" /\ iteration.renders = 1 /\ ~exit /\ room.open

----------------------------------------------------------------------------
(* SpecStore: reload_linked_chunks over a chunk store whose calls may fail *)

\* The chunks pushed before store call number `call`: call 1 is
\* load_last_chunk, call k > 1 is the load_previous_chunk after the push of
\* chunk k - 1.
collected_before(chunks, call) ==
    SubSeq(chunks, 1, call - 1)

\* One call of reload_linked_chunks where store call number failing_call
\* returns Err (0: no call fails).  Both loads end in `.await.unwrap()`, so an
\* Err panics in the task that runs update, with the chunks pushed so far.
ReloadWithStore(first_event_id, failing_call) ==
    LET r == reload_linked_chunks(store, first_event_id)
    IN /\ ~panicked
       /\ failing_call <= r.calls
       /\ panicked' = (failing_call > 0)
       /\ linked_chunks' = IF failing_call > 0
                           THEN collected_before(r.chunks, failing_call)
                           ELSE r.chunks
       /\ last' = [kind |-> "StoreReload", first |-> first_event_id,
                   failed |-> failing_call,
                   collected |-> IF failing_call > 0
                                 THEN collected_before(r.chunks, failing_call)
                                 ELSE r.chunks]
       /\ UNCHANGED <<items, scroll_position, details, store>>
       /\ UNCHANGED appVars

ReloadLoads ==
    \E first_event_id \in EventIds \cup {None} : ReloadWithStore(first_event_id, 0)

ReloadFails ==
    \E first_event_id \in EventIds \cup {None}, failing_call \in 1..(MaxChain + 1) :
        ReloadWithStore(first_event_id, failing_call)

NextStore ==
    \/ ReloadLoads
    \/ ReloadFails

SpecStore == InitChunks /\ [][NextStore]_vars

\* C22: a failure of the chunk store while loading the last or a previous
\* chunk ends the reconstruction with the chunks collected so far and is not
\* propagated: the task that runs the main loop does not panic.
C22_StoreFailureIsNoFurtherChunks ==
    (last.kind = "StoreReload" /\ last.failed > 0)
        => (~panicked /\ linked_chunks = last.collected)

----------------------------------------------------------------------------
\* The message update is about to handle makes an outbound remote call and
\* applies no diffs: send, mark_as_read, toggle_reaction, paginate_backwards
\* or the clearing of the event cache of the room.
RemoteCallPending ==
    /\ pc = "update"
    /\ next_message.m = "Room"
    /\ room.open
    /\ \/ next_message.msg.r \in {"SendMessage", "MarkAsRead", "EmptyEventCache"}
       \/ /\ next_message.msg.r = "Timeline"
          /\ next_message.msg.msg.t \in {"PaginateBackwards", "ToggleReactionOnLastMessage"}

\* C23: a failure of an outbound remote call made from within update is not
\* fatal: whatever the call returns, the process does not panic and the chain
\* goes on, to its next message or back to the head of the loop.
C23_RemoteFailureIsNotFatal ==
    [][RemoteCallPending => (~panicked' /\ pc' \in {"update", "loop"})]_vars

----------------------------------------------------------------------------
(* SpecDiffs: batches of diffs applied to the items of one timeline *)

\* The sequence [A, B, C] of three different event items.
ThreeItems == <<2, 3, 1>>

\* The single diffs of SpecDiffs: every operation at every index, with the
\* virtual item 0 as the value carried, and the Reset to [A, B, C].
SingleDiffs ==
    {d \in Diffs : /\ d.op \in {"PushFront", "PushBack", "Insert", "Set"} => d.value = 0
                   /\ d.op \in {"Append", "Reset"} => d.values = <<1>>}
    \cup {[op |-> "Reset", values |-> ThreeItems]}

\* The batches of two: a diff followed by a full replacement, a diff whose
\* index is out of range before one, and two pairs whose order matters.
DiffPairs ==
    { <<[op |-> "PushBack", value |-> 0], [op |-> "Reset", values |-> <<1>>]>>,
      <<[op |-> "Set", index |-> 0, value |-> 0], [op |-> "Clear"]>>,
      <<[op |-> "Reset", values |-> ThreeItems], [op |-> "Insert", index |-> 1, value |-> 0]>>,
      <<[op |-> "Remove", index |-> MaxLen], [op |-> "Clear"]>>,
      <<[op |-> "PushFront", value |-> 0], [op |-> "PopBack"]>>,
      <<[op |-> "PopBack"], [op |-> "PushFront", value |-> 0]>> }

DiffBatches ==
    {<<>>} \cup {<<d>> : d \in SingleDiffs} \cup DiffPairs

\* The pairs (sequence, batch) whose first outcome is kept for comparison with
\* every later application of the same batch to the same sequence.
Probes ==
    { [before |-> ThreeItems, diffs |-> <<[op |-> "Insert", index |-> 1, value |-> 0]>>],
      [before |-> <<>>, diffs |-> <<[op |-> "PopBack"], [op |-> "PushFront", value |-> 0]>>] }

NoOutcome == [seen |-> FALSE, ok |-> TRUE, v |-> <<>>]

\* Model::new, with the pair to watch.
InitDiffs ==
    /\ items = <<>>
    /\ linked_chunks = <<>>
    /\ scroll_position = 0
    /\ details = "None"
    /\ store = AppStore
    /\ last = NoLast
    /\ panicked = FALSE
    /\ exit = FALSE
    /\ mode = NoMode
    /\ room = NoRoom
    /\ queue = <<>>
    /\ pc = "loop"
    /\ next_message = NoMessage
    /\ tasks = NoTasks
    /\ iteration = NoIteration
    /\ \E probe \in Probes :
          applied = [to |-> "nothing", diffs |-> <<>>, probe |-> probe,
                     outcome |-> NoOutcome, again |-> FALSE]

\* Message::Update(diffs); applied keeps the batch, and the outcome of the
\* first application of the watched batch to the watched sequence.
DiffsUpdate ==
    \E diffs \in DiffBatches :
        LET probed == items = applied.probe.before /\ diffs = applied.probe.diffs
        IN /\ TlUpdate(diffs)
           /\ applied' = [applied EXCEPT
                              !.to = "timeline",
                              !.diffs = diffs,
                              !.again = probed /\ applied.outcome.seen,
                              !.outcome = IF probed /\ ~applied.outcome.seen
                                          THEN [seen |-> TRUE, ok |-> ~panicked', v |-> items']
                                          ELSE @]
           /\ UNCHANGED <<exit, mode, room, queue, pc, next_message, tasks, iteration>>

\* Message::Scroll(scroll)
DiffsScroll ==
    \E scroll \in {"Up", "Start"} :
        /\ TlScroll(scroll)
        /\ applied' = [applied EXCEPT !.to = "nothing", !.diffs = <<>>, !.again = FALSE]
        /\ UNCHANGED <<exit, mode, room, queue, pc, next_message, tasks, iteration>>

\* Message::ShowDetails(details)
DiffsShowDetails ==
    \E to \in {"None", "LinkedChunk"} :
        /\ TlShowDetails(to)
        /\ applied' = [applied EXCEPT !.to = "nothing", !.diffs = <<>>, !.again = FALSE]
        /\ UNCHANGED <<exit, mode, room, queue, pc, next_message, tasks, iteration>>

NextDiffs ==
    \/ DiffsUpdate
    \/ DiffsScroll
    \/ DiffsShowDetails

SpecDiffs == InitDiffs /\ [][NextDiffs]_vars

\* The step is the application of the batch applied'.diffs to items.
BatchApplied ==
    applied'.to = "timeline"

\* The left fold of single-diff application, written from the last diff.
RECURSIVE left_fold(_, _)
left_fold(s, diffs) ==
    IF diffs = <<>> THEN Ok(s)
    ELSE LET front == left_fold(s, SubSeq(diffs, 1, Len(diffs) - 1))
         IN IF front.ok THEN apply(front.v, diffs[Len(diffs)]) ELSE front

\* Diff k of the batch meets the sequence the diffs before it left, and its
\* index is out of range there: Insert beyond the length, Set or Remove at or
\* beyond it.
OutOfRange(s, diffs) ==
    \E k \in 1..Len(diffs) :
        LET front == left_fold(s, SubSeq(diffs, 1, k - 1))
        IN /\ front.ok
           /\ \/ diffs[k].op = "Insert" /\ diffs[k].index > Len(front.v)
              \/ diffs[k].op \in {"Set", "Remove"} /\ diffs[k].index >= Len(front.v)

\* C24: Insert with index > length, Set or Remove with index >= length fails
\* (the application panics) and no altered sequence is left behind.
C24_OutOfRangeIndexFails ==
    [][(BatchApplied /\ OutOfRange(items, applied'.diffs))
       => (panicked' /\ last'.kind = "Panic" /\ items' = items)]_vars

C24_Witness ==
    /\ panicked
    /\ applied.to = "timeline"
    /\ applied.diffs = <<[op |-> "Set", index |-> 1, value |-> 0]>>
    /\ items = <<1>>

InsertIsPositional(before, diff, after) ==
    /\ Len(after) = Len(before) + 1
    /\ after[diff.index + 1] = diff.value
    /\ \A j \in 1..Len(before) :
          after[IF j <= diff.index THEN j ELSE j + 1] = before[j]

\* C26: the diffs of a batch are applied in their order in the batch, each to
\* the result of the one before: the items after the batch are the left fold
\* of single-diff application, and a single Insert is positional.
C26_BatchIsLeftFoldInOrder ==
    [][(BatchApplied /\ ~panicked')
       => (/\ left_fold(items, applied'.diffs).ok
           /\ items' = left_fold(items, applied'.diffs).v
           /\ (Len(applied'.diffs) = 1 /\ applied'.diffs[1].op = "Insert")
                 => InsertIsPositional(items, applied'.diffs[1], items'))]_vars

\* Insert(1, X) on [A, B, C] has left [A, X, B, C].
C26_Witness ==
    /\ applied.to = "timeline"
    /\ applied.diffs = <<[op |-> "Insert", index |-> 1, value |-> 0]>>
    /\ items = <<2, 0, 3, 1>>
    /\ ~panicked

\* C27: applying a batch to the timeline leaves the scroll offset and the
\* details mode as they were, whatever the batch does to the items.
C27_BatchLeavesOffsetAndDetails ==
    [][BatchApplied => (scroll_position' = scroll_position /\ details' = details)]_vars

\* Insert(1, X) on [A, B, C] with the offset at 2: the offset is still 2.
C27_Witness ==
    /\ applied.to = "timeline"
    /\ applied.diffs = <<[op |-> "Insert", index |-> 1, value |-> 0]>>
    /\ items = <<2, 0, 3, 1>>
    /\ scroll_position = 2

\* C28: Reset and Clear are full replacements: when the last diff of a batch
\* is Reset(values) the items are values, when it is Clear they are empty,
\* whatever the items were and whatever the batch did before.
C28_ResetAndClearReplace ==
    [][(BatchApplied /\ ~panicked' /\ applied'.diffs # <<>>)
       => LET diff == applied'.diffs[Len(applied'.diffs)]
          IN /\ diff.op = "Reset" => items' = diff.values
             /\ diff.op = "Clear" => items' = <<>>]_vars

\* A Reset after another diff of the same batch, on items that were not empty.
C28_Witness ==
    /\ applied.to = "timeline"
    /\ applied.diffs = <<[op |-> "PushBack", value |-> 0],
                         [op |-> "Reset", values |-> <<1>>]>>
    /\ items = <<1>>
    /\ last.kind = "Update" /\ last.had_chunks

----------------------------------------------------------------------------
(* SpecChunkView: the main loop with a room open, its chunk view and scrolling *)

\* The keys that open the room mode, switch the details, and scroll.
ChunkViewKeys == {"r", "l", "t", "s", "e", "Up", "Down"}

\* A room has just been opened: its forwarder has not sent the initial items.
InitChunkView ==
    /\ exit = FALSE
    /\ panicked = FALSE
    /\ last = NoLast
    /\ applied = NoApplied
    /\ store = AppStore
    /\ room = [open |-> TRUE, id |-> "!r1", textarea |-> "", received |-> FALSE,
               synced |-> FALSE]
    /\ mode = NoMode
    /\ tasks = UpdateTasks(mode, room)
    /\ items = <<>>
    /\ linked_chunks = <<>>
    /\ scroll_position = 0
    /\ details = "None"
    /\ pc = "loop"
    /\ queue = <<>>
    /\ next_message = NoMessage
    /\ iteration = NoIteration

ChunkViewTerminalEvents ==
    KeyPressed(ChunkViewKeys, Backlog)

ChunkViewTimelineUpdates ==
    items_updates_task(Backlog)

NextChunkView ==
    \/ ChunkViewTerminalEvents
    \/ ChunkViewTimelineUpdates
    \/ Render
    \/ Recv
    \/ UpdateRoom
    \/ UpdateMode

SpecChunkView == InitChunkView /\ [][NextChunkView]_vars

\* The frame that is drawn shows the chunk debug view.
ChunkViewShown ==
    mode.kind # "Logger" /\ room.open /\ details = "LinkedChunk"

\* C29: after every render of the chunk debug view the stored offset is at
\* most max(0, content_height - area_height) for the height of the area that
\* was drawn, also when it held usize::MAX and also when the content fits in
\* the area.
C29_RenderClampsStoredOffset ==
    [][(pc = "loop" /\ pc' = "recv" /\ ChunkViewShown)
       => \E area_height \in AreaHeights :
             scroll_position' <= saturating_sub(text_height(linked_chunks), area_height)]_vars

----------------------------------------------------------------------------
\* C30: in the chunk view the provisional offset never wraps: Start stores
\* usize::MAX, Up adds one and stays at usize::MAX once there, Down subtracts
\* one and stays at 0 once there, End stores 0.
C30_ProvisionalOffsetNeverWraps ==
    [][(last'.kind = "Scroll" /\ details = "LinkedChunk")
       => (/\ 0 <= scroll_position' /\ scroll_position' <= USIZE_MAX
           /\ last'.scroll = "Start" => scroll_position' = USIZE_MAX
           /\ last'.scroll = "End" => scroll_position' = 0
           /\ last'.scroll = "Up" =>
                 /\ scroll_position' >= scroll_position
                 /\ scroll_position' = IF scroll_position = USIZE_MAX THEN USIZE_MAX
                                       ELSE scroll_position + 1
           /\ last'.scroll = "Down" =>
                 /\ scroll_position' <= scroll_position
                 /\ scroll_position' = IF scroll_position = 0 THEN 0
                                       ELSE scroll_position - 1)]_vars

\* Up has been pressed with the offset at the sentinel or one below it.
C30_Witness ==
    /\ last.kind = "Scroll" /\ last.scroll = "Up"
    /\ details = "LinkedChunk"
    /\ scroll_position = USIZE_MAX

----------------------------------------------------------------------------
\* The chain of the key `code`, pressed in the mode `from`, has ended.
KeyChainEnded(code, from) ==
    /\ pc = "loop"
    /\ ~panicked
    /\ last.kind = "Input"
    /\ last.input.kind = "KeyPress"
    /\ last.input.code = code
    /\ last.mode = from

\* C31: one press of an activation key makes its mode the active one when the
\* chain has ended: from None, Space -> Space, r -> Room, i -> Insert; from
\* Space, f -> RoomList and l -> Logger.  The mode is one value: between chains
\* the forwarder of a room list or a logger lives only if that mode is active.
C31_ActivationKeyActivatesItsMode ==
    /\ KeyChainEnded(" ", "None") => mode.kind = "Space"
    /\ KeyChainEnded("r", "None") => mode.kind = "Room"
    /\ KeyChainEnded("i", "None") => mode.kind = "Insert"
    /\ KeyChainEnded("f", "Space") => mode.kind = "RoomList"
    /\ KeyChainEnded("l", "Space") => mode.kind = "Logger"
    /\ mode.kind \in {"None", "Space", "Room", "Insert", "RoomList", "Logger"}
    /\ (pc # "update" /\ tasks.room_list # "none") => mode.kind = "RoomList"
    /\ (pc # "update" /\ tasks.logger # "none") => mode.kind = "Logger"

C31_Witness ==
    /\ KeyChainEnded("f", "Space")
    /\ mode.kind = "RoomList"
    /\ tasks.room_list = "first"
    /\ tasks.logger = "none"

\* C32: as the welcome screen says, l pressed in the mode None activates the
\* Logger mode.
C32_LFromHomeActivatesLogger ==
    KeyChainEnded("l", "None") => mode.kind = "Logger"

----------------------------------------------------------------------------
(* SpecQuitFair: the main loop and the keys that change the mode or quit *)

\* The keys are those that change the mode or quit.
NextQuit ==
    \/ KeyPressed({"q", "Esc", " ", "r", "i", "f", "l"}, Backlog)
    \/ Render
    \/ Stop
    \/ Recv
    \/ UpdateQuit
    \/ UpdateRoom
    \/ UpdateMode
    \/ UpdateSpace
    \/ UpdateRoomList
    \/ UpdateLogger


\* App::run is a running task: when exit is set its loop ends and the call of
\* sync_service.stop() is made (and returns).
SpecQuitFair == Init /\ [][NextQuit]_vars /\ WF_vars(Stop)

\* Quit comes from q pressed in the mode None and from nothing else; with exit
\* set the loop is at its head or behind it.
QuitOnlyFromHome ==
    /\ exit => pc \in {"loop", "done"}
    /\ (exit \/ (pc = "update" /\ next_message.m = "Quit"))
          => (/\ last.kind = "Input"
              /\ last.input.kind = "KeyPress"
              /\ last.input.code = "q"
              /\ last.mode = "None")

\* With exit set: exit stays set, no input is taken, no frame is drawn, and the
\* only step of the loop is the one that stops the sync service.
AfterQuitStep ==
    exit => (/\ exit'
             /\ Len(queue') >= Len(queue)
             /\ iteration' = iteration
             /\ mode' = mode
             /\ pc' = pc \/ (pc = "loop" /\ pc' = "done"))

\* C33: q quits from the mode None only; once Quit is processed exit is set
\* for good, the loop takes no further input and draws no further frame, and
\* the sync service is stopped, once.
C33_QuitOnlyFromHomeAndForGood ==
    /\ []QuitOnlyFromHome
    /\ [][AfterQuitStep]_vars
    /\ (exit ~> pc = "done")

\* The loop has ended with an input left in the channel.
C33_Witness ==
    /\ exit
    /\ pc = "done"
    /\ queue # <<>>

----------------------------------------------------------------------------
\* The input just taken is a key other than Esc, pressed in the Insert mode.
InsertKeyTaken ==
    /\ pc = "update"
    /\ iteration.updates = 0
    /\ last.kind = "Input"
    /\ last.input.kind = "KeyPress"
    /\ last.input.code # "Esc"
    /\ last.mode = "Insert"

\* C34: in the Insert mode a key other than Esc becomes an UpdateMessage for
\* the text editor and nothing else: q does not quit, no key changes the mode,
\* and after a key other than Esc or Enter the mode is still Insert and the
\* text area of the open room holds what the editor made of the key.
C34_InsertKeysGoToTheEditor ==
    /\ InsertKeyTaken
          => (/\ next_message.m = "Room"
              /\ next_message.msg.r = "UpdateMessage"
              /\ next_message.msg.code = last.input.code)
    /\ \A code \in KeyCodes \ {"Esc", "Enter"} :
          KeyChainEnded(code, "Insert")
             => (/\ mode.kind = "Insert"
                 /\ ~exit
                 /\ room.open => room.textarea = handle_input(last.textarea, code))

C34_Witness ==
    /\ KeyChainEnded("q", "Insert")
    /\ mode.kind = "Insert"
    /\ room.open
    /\ last.textarea = ""
    /\ room.textarea = "text"

----------------------------------------------------------------------------
(* SpecReopenFair: the main loop, the keys that open and leave the room list,
   and the forwarder of the room list, under a main loop that keeps running *)

\* One step of the task that runs App::run.
MainLoop ==
    \/ Render
    \/ Recv
    \/ UpdateMode
    \/ UpdateSpace
    \/ UpdateRoomList

NextReopen ==
    \/ KeyPressed({" ", "f", "Esc"}, Capacity)
    \/ room_list_updates_task(Capacity)
    \/ Render
    \/ Recv
    \/ UpdateMode
    \/ UpdateSpace
    \/ UpdateRoomList


\* The position of the main loop; every step of the loop changes it.
loopVars == <<pc, iteration>>

\* The main task is scheduled whenever it can run; the producers may or may not
\* have something to send.
SpecReopenFair == Init /\ [][NextReopen]_vars /\ WF_loopVars(MainLoop)

\* The main loop waits only for the next input of an empty channel: in every
\* other state that is not the end of the program it has a step to take, and
\* while it waits a producer has room to send.
NoMutualWait ==
    /\ (~panicked /\ ~exit /\ ~(pc = "recv" /\ queue = <<>>)) => ENABLED MainLoop
    /\ (pc = "recv" /\ queue = <<>>) => Len(queue) < Capacity

\* C35: the producers never block the main loop: an input that is in the
\* channel is taken (the loop comes to its recv and leaves it with the oldest
\* input) unless exit is set first; and no state has the main loop and the
\* producers waiting on each other.
C35_EnqueuedIsEventuallyDequeued ==
    /\ []NoMutualWait
    /\ (queue # <<>>) ~> (pc = "recv" \/ exit)
    /\ (pc = "recv" /\ queue # <<>>) ~> (pc # "recv" \/ exit)

----------------------------------------------------------------------------
\* update is about to handle a room message with a room open.
RoomMessagePending ==
    /\ pc = "update"
    /\ next_message.m = "Room"
    /\ room.open

\* The step is a call of update that returned.
UpdateReturned ==
    /\ iteration'.updates = iteration.updates + 1
    /\ ~panicked'

\* C36: with a room open, every room message chains into Mode(None), except an
\* UpdateMessage, which chains into SendMessage for Enter and into nothing for
\* another key; and Mode(None) makes None the active mode and ends the chain,
\* whatever the mode was.
C36_RoomMessagesEndInHomeMode ==
    /\ [][(RoomMessagePending /\ UpdateReturned)
          => IF next_message.msg.r = "UpdateMessage"
             THEN IF next_message.msg.code = "Enter"
                  THEN next_message'.m = "Room" /\ next_message'.msg.r = "SendMessage"
                  ELSE next_message'.m = "NoMessage"
             ELSE next_message'.m = "Mode" /\ next_message'.mode.kind = "None"]_vars
    /\ [][(pc = "update" /\ next_message.m = "Mode" /\ UpdateReturned)
          => (mode' = next_message.mode /\ pc' = "loop")]_vars

\* A diff batch was applied while the Space mode was active, and the chain has
\* ended in the mode None.
C36_Witness ==
    /\ pc = "loop"
    /\ ~panicked
    /\ last.kind = "Update"
    /\ applied.to = "timeline"
    /\ mode.kind = "None"
    /\ iteration.updates = 2

----------------------------------------------------------------------------
\* C37: with no room open, update drops a room message: it returns no message,
\* so the chain ends, and the mode, the exit flag, the room and the timeline
\* are as before; a key other than Escape pressed in the Room or the Insert
\* mode therefore leaves that mode active.
C37_RoomMessagesAreDroppedWithoutRoom ==
    /\ [][(pc = "update" /\ next_message.m = "Room" /\ ~room.open
              /\ iteration'.updates = iteration.updates + 1)
          => /\ next_message' = NoMessage
             /\ pc' = "loop"
             /\ ~panicked'
             /\ UNCHANGED <<mode, exit, room, tlVars>>]_vars
    /\ [](\A code \in KeyCodes \ {"Esc"} : \A from \in {"Room", "Insert"} :
              (KeyChainEnded(code, from) /\ ~room.open) => mode.kind = from)

\* The key m (MarkAsRead) was pressed in the Room mode with no room open, and
\* its chain has ended after one call of update.
C37_Witness ==
    /\ KeyChainEnded("m", "Room")
    /\ ~room.open
    /\ mode.kind = "Room"
    /\ iteration.updates = 1

----------------------------------------------------------------------------
(* SpecSend: composing and sending in a room whose chunk view is scrolled *)

\* The keys open the room mode, show the chunk view, scroll it, start
\* composing, type, send, and leave.
NextSend ==
    \/ KeyPressed({"r", "l", "Up", "i", "x", "Enter", "Esc"}, Backlog)
    \/ items_updates_task(Backlog)
    \/ Render
    \/ Recv
    \/ UpdateRoom
    \/ UpdateMode

SpecSend == InitChunkView /\ [][NextSend]_vars

\* update is about to handle the room message `r` with a room open.
RoomMessageIs(r) ==
    /\ pc = "update"
    /\ next_message.m = "Room"
    /\ next_message.msg.r = r
    /\ room.open
    /\ iteration'.updates = iteration.updates + 1

\* C38: Enter in the Insert mode chains UpdateMessage into SendMessage with
\* the composed text untouched; SendMessage empties the text area, cannot fail
\* on an empty text (no remote send is made), and when it returns the timeline
\* offset is 0, the items and the details are as before and Mode(None) is
\* next; a chain of three calls of update ends in the mode None.
C38_EnterSendsAndLeadsHome ==
    /\ [][(RoomMessageIs("UpdateMessage") /\ next_message.msg.code = "Enter")
          => /\ next_message' = RoomMessage([r |-> "SendMessage"])
             /\ UNCHANGED <<room, mode, tlVars>>]_vars
    /\ [][RoomMessageIs("SendMessage")
          => /\ room' = [room EXCEPT !.textarea = ""]
             /\ room.textarea = "" => ~panicked'
             /\ ~panicked' => /\ scroll_position' = 0
                              /\ next_message' = ModeMessage(NoMode)
                              /\ UNCHANGED <<items, linked_chunks, details, mode>>]_vars
    /\ []((pc = "loop" /\ ~panicked /\ iteration.updates = 3)
             => /\ mode.kind = "None"
                /\ room.textarea = ""
                /\ scroll_position = 0
                /\ last = [kind |-> "Scroll", scroll |-> "End"])

\* A composed text is about to be sent from the Insert mode while the chunk
\* view is scrolled up.
C38_Witness ==
    /\ pc = "update"
    /\ next_message = RoomMessage([r |-> "SendMessage"])
    /\ mode.kind = "Insert"
    /\ room.textarea = "text"
    /\ details = "LinkedChunk"
    /\ scroll_position > 0
    /\ iteration.updates = 1

----------------------------------------------------------------------------
\* The room list has no room at the index Select looks up: the list is empty,
\* or the selected index is past its end.
NothingUnderSelection ==
    /\ mode.kind = "RoomList"
    /\ \/ mode.rooms = <<>>
       \/ mode.selected # NoSelection /\ mode.selected >= Len(mode.rooms)

\* C39: Select with no room at the selected index returns no message and does
\* not fail: the chain ends there with the room list model, the open room, the
\* timeline, the forwarders and the exit flag as they were; after Enter on an
\* empty room list the mode is still RoomList.
C39_SelectOnNothingChangesNothing ==
    /\ [][(pc = "update" /\ next_message = RoomListMessage([l |-> "Select"])
              /\ NothingUnderSelection
              /\ iteration'.updates = iteration.updates + 1)
          => /\ next_message' = NoMessage
             /\ pc' = "loop"
             /\ ~panicked'
             /\ UNCHANGED <<mode, room, exit, tasks, tlVars>>]_vars
    /\ []((KeyChainEnded("Enter", "RoomList") /\ last.selected = "none")
             => /\ mode.kind = "RoomList"
                /\ iteration.updates = 1)

\* Enter was pressed on an empty room list while a room was open, and its
\* chain has ended.
C39_Witness ==
    /\ KeyChainEnded("Enter", "RoomList")
    /\ last.selected = "none"
    /\ mode.kind = "RoomList"
    /\ mode.rooms = <<>>
    /\ room.open
    /\ iteration.updates = 1

----------------------------------------------------------------------------
(* SpecRoomList: the room list mode under batches that move its rooms *)

\* Batches of the room list stream that add rooms at both ends, remove the
\* first room, and replace all rooms.
RoomListDiffs ==
    { <<[op |-> "Insert", index |-> 0, value |-> "!r3"]>>,
      <<[op |-> "PushBack", value |-> "!r3"]>>,
      <<[op |-> "Remove", index |-> 0]>>,
      <<[op |-> "Clear"]>>,
      <<[op |-> "Reset", values |-> <<"!r1", "!r2">>]>> }

\* The room list mode is active with no room open, and the loop waits in recv().
InitRoomList ==
    /\ exit = FALSE
    /\ panicked = FALSE
    /\ last = NoLast
    /\ applied = NoApplied
    /\ store = AppStore
    /\ room = NoRoom
    /\ mode \in UNION {RoomListModes(rooms) : rooms \in RoomLists}
    /\ tasks = [UpdateTasks(mode, room) EXCEPT !.room_list = "stream"]
    /\ items = <<>>
    /\ linked_chunks = <<>>
    /\ scroll_position = 0
    /\ details = "None"
    /\ pc = "recv"
    /\ queue = <<>>
    /\ next_message = NoMessage
    /\ iteration = [updates |-> 0, renders |-> 1]

\* room_list_updates_task: a batch of the stream, which fits the rooms the
\* batches before it have left.
RoomListDiffsSent ==
    /\ tasks.room_list = "stream"
    /\ \A i \in 1..Len(queue) : queue[i].kind # "RoomListUpdate"
    /\ \E diffs \in RoomListDiffs :
          /\ apply_all(mode.rooms, diffs).ok
          /\ Len(apply_all(mode.rooms, diffs).v) < MaxLen
          /\ Send(RoomListUpdate(diffs, Origin(FALSE)), Backlog)
    /\ UNCHANGED tasks

\* The keys are the cursor keys and a key that edits the filter.
NextRoomList ==
    \/ KeyPressed({"Up", "Down", "x"}, Backlog)
    \/ RoomListDiffsSent
    \/ Render
    \/ Recv
    \/ UpdateRoomList

SpecRoomList == InitRoomList /\ [][NextRoomList]_vars

\* update is about to handle the room list message `l` in the RoomList mode.
RoomListMessageIs(l) ==
    /\ pc = "update"
    /\ next_message.m = "RoomList"
    /\ next_message.msg.l = l
    /\ mode.kind = "RoomList"
    /\ iteration'.updates = iteration.updates + 1
    /\ ~panicked'

\* C40: a room list batch leaves the selected index as it was, whatever rooms
\* it adds or removes, except that with no selection it selects index 0; and
\* a batch, MoveCursorUp, MoveCursorDown and a filter edit return no message.
C40_BatchKeepsTheSelectedIndex ==
    /\ [][RoomListMessageIs("UpdateRoomList")
          => /\ mode'.selected = IF mode.selected = NoSelection THEN 0 ELSE mode.selected
             /\ mode'.rooms = apply_all(mode.rooms, next_message.msg.diffs).v
             /\ next_message' = NoMessage]_vars
    /\ [][(\E l \in {"MoveCursorUp", "MoveCursorDown", "UpdateFilter"} : RoomListMessageIs(l))
          => /\ next_message' = NoMessage
             /\ pc' = "loop"
             /\ mode'.rooms = mode.rooms]_vars

\* A room was inserted before the selected one: the selection is still index
\* 1, which is now another room.
C40_Witness ==
    /\ pc = "loop"
    /\ ~panicked
    /\ applied.to = "room list"
    /\ mode.kind = "RoomList"
    /\ mode.rooms = <<"!r3", "!r1", "!r2">>
    /\ mode.selected = 1
    /\ mode.preview = "!r1"
    /\ last.kind = "Input"
    /\ last.input.kind = "RoomListUpdate"
    /\ last.selected = "!r2"

====
